---- MODULE Spec2Model ----
(***************************************************************************)
(* Model of the scoring -> consensus -> sizing pipeline of microcap_agent:  *)
(*   agents/opportunity_scanner.py  OpportunityScannerAgent                 *)
(*   agents/meta_agent.py           MetaAgent                               *)
(*   agents/risk_committee.py       RiskSeeking/Neutral/ConservativeAgent,  *)
(*                                  RiskCommittee                           *)
(*                                                                         *)
(* Number representation.  Python floats are modelled by exact integers in  *)
(* a fixed unit: confidences in hundredths (0.85 -> 85), position fractions *)
(* in thousandths (0.096 -> 96), prices of the sizing committee in cents,   *)
(* revenue growth in hundredths.  A value that may be None is an            *)
(* option: <<>> for None, <<v>> for the value v.                            *)
(***************************************************************************)
EXTENDS Integers, Sequences, FiniteSets, TLC

VARIABLES
    data,          \* scanner: the metrics snapshot handed to _score_opportunity
    scored,        \* scanner: what _score_opportunity returned for data
    scan,          \* scanner: the call in hand, its inputs and what it returned
    last_scan_stats, \* OpportunityScannerAgent.last_scan_stats
    cache_file,    \* the content of opportunities_latest.json, None if absent
    agent_recs,    \* meta agent: the opinion list handed to aggregate_recommendations
    meta_result,   \* meta agent: the dict aggregate_recommendations returned
    sizing,        \* committee, one debate followed through its steps
    claude,        \* RiskCommittee.claude is set (an arbiter client exists)
    wins,          \* posture name -> wins counter of that agent object
    debates,       \* posture name -> debates counter of that agent object
    history,       \* RiskCommittee.history
    history_file,  \* the content of risk_committee_history.json, None if absent
    last_call,     \* input and outcome of the latest debate_position_sizing call
    threads,       \* concurrent callers of debate_position_sizing: caller -> position
    service        \* the program using the committee and its call in hand

scannerVars == <<data, scored, scan, last_scan_stats, cache_file>>

metaVars == <<agent_recs, meta_result>>

committeeVars == <<claude, wins, debates, history, history_file, last_call>>

vars == <<scannerVars, metaVars, sizing, committeeVars, threads, service>>

(***************************************************************************)
(* Python helpers                                                           *)
(***************************************************************************)
None == <<>>

Some(v) == <<v>>

\* Python truthiness of an optional number: None and 0 are falsy.
Truthy(o) == o # None /\ o[1] # 0

Min(a, b) == IF a <= b THEN a ELSE b

Abs(a) == IF a < 0 THEN -a ELSE a

\* int(n / d) for d # 0: Python's int() truncates toward zero.
TruncDiv(n, d) ==
    IF (n >= 0) = (d > 0) THEN Abs(n) \div Abs(d) ELSE -(Abs(n) \div Abs(d))

RECURSIVE SumSeq(_)
SumSeq(s) == IF s = <<>> THEN 0 ELSE s[1] + SumSeq(Tail(s))

(***************************************************************************)
(* agents/opportunity_scanner.py                                            *)
(***************************************************************************)
\* SCREENING_CRITERIA["sectors"]
PreferredSectors == {"Technology", "Healthcare", "Biotechnology", "Energy"}

\* OpportunityScannerAgent.SCORING_WEIGHTS
SCORING_WEIGHTS ==
    [momentum |-> 25, technical |-> 25, fundamental |-> 25, sentiment |-> 10,
     sector |-> 15]

\* Price momentum points (0-15).
PriceMomentumPoints(price_change) ==
    IF price_change > 10 THEN 15
    ELSE IF price_change > 7 THEN 10
    ELSE IF price_change > 4 THEN 5
    ELSE 0

\* Volume spike points (0-10).  volume_ratio = volume / avg_volume when
\* avg_volume > 0, else 1; the comparisons with 4, 2.5 and 1.8 are done on
\* the fraction volume / avg_volume by cross-multiplication.
VolumeSpikePoints(volume, avg_volume) ==
    LET num == IF avg_volume > 0 THEN volume ELSE 1
        den == IF avg_volume > 0 THEN avg_volume ELSE 1
    IN  IF num > 4 * den THEN 10
        ELSE IF 2 * num > 5 * den THEN 7
        ELSE IF 5 * num > 9 * den THEN 4
        ELSE 0

\* RSI positioning points (0-10).
RsiPoints(rsi) ==
    IF 58 <= rsi /\ rsi <= 65 THEN 10
    ELSE IF 52 <= rsi /\ rsi <= 70 THEN 6
    ELSE IF 45 <= rsi /\ rsi <= 52 THEN 3
    ELSE 0

\* 52-week position points (0-15).  position = (price - low) / (high - low)
\* * 100 is a float product: for a quotient of exactly 11/20 it is
\* 0.55 * 100 = 55.00000000000001, so "position > 55" also holds at exactly
\* 55%, while 0.7 * 100 = 70.0 and 0.85 * 100 = 85.0 are exact.  The
\* comparisons are done on 100 * (price - low) against p * (high - low).
PositionPoints(price, high_52w, low_52w) ==
    IF Truthy(high_52w) /\ Truthy(low_52w) /\ high_52w[1] # low_52w[1]
    THEN LET range == high_52w[1] - low_52w[1]
             off == price - low_52w[1]
             Above(p) == IF range > 0 THEN 100 * off > p * range
                         ELSE 100 * off < p * range
             AtOrAbove(p) == Above(p) \/ 100 * off = p * range
         IN  IF Above(85) THEN 15
             ELSE IF Above(70) THEN 10
             ELSE IF AtOrAbove(55) THEN 5
             ELSE 0
    ELSE 0

\* P/E points (0-10), with the forward P/E as the last alternative.
PePoints(pe_ratio, forward_pe) ==
    IF Truthy(pe_ratio) /\ 0 < pe_ratio[1] /\ pe_ratio[1] < 25 THEN 10
    ELSE IF Truthy(pe_ratio) /\ 0 < pe_ratio[1] /\ pe_ratio[1] < 40 THEN 5
    ELSE IF Truthy(forward_pe) /\ 0 < forward_pe[1] /\ forward_pe[1] < 20 THEN 7
    ELSE 0

\* Price to book points (0-8).
PbPoints(pb_ratio) ==
    IF Truthy(pb_ratio) /\ 0 < pb_ratio[1] /\ pb_ratio[1] < 3 THEN 8
    ELSE IF Truthy(pb_ratio) /\ 0 < pb_ratio[1] /\ pb_ratio[1] < 5 THEN 4
    ELSE 0

\* Revenue growth points (0-7); revenue_growth in hundredths.
RevenueGrowthPoints(revenue_growth) ==
    IF Truthy(revenue_growth) /\ revenue_growth[1] > 20 THEN 7
    ELSE IF Truthy(revenue_growth) /\ revenue_growth[1] > 10 THEN 4
    ELSE 0

\* SectorPoints with a wrong bonus for a preferred sector.
SectorPoints_WrongBonus(sector) == IF sector \in PreferredSectors THEN 10 ELSE 0

\* Sector bonus before its cap.
SectorPoints(sector) == IF sector \in PreferredSectors THEN 15 ELSE 0

\* The five signals of _score_opportunity, each after its min(..) cap.
ScoreSignals(d) ==
    [momentum |->
        Min(PriceMomentumPoints(d.price_change_pct)
              + VolumeSpikePoints(d.volume, d.avg_volume),
            SCORING_WEIGHTS.momentum),
     technical |->
        Min(RsiPoints(d.rsi)
              + PositionPoints(d.price, d.fifty_two_week_high, d.fifty_two_week_low),
            SCORING_WEIGHTS.technical),
     fundamental |->
        Min(PePoints(d.pe_ratio, d.forward_pe) + PbPoints(d.price_to_book)
              + RevenueGrowthPoints(d.revenue_growth),
            SCORING_WEIGHTS.fundamental),
     sentiment |-> Min(0, SCORING_WEIGHTS.sentiment),
     sector_match |-> Min(SectorPoints(d.sector), SCORING_WEIGHTS.sector)]

\* sum(signals.values())
RawTotal(signals) ==
    signals.momentum + signals.technical + signals.fundamental
      + signals.sentiment + signals.sector_match

\* _score_opportunity taking the overflow branch from a total of 90 on.
_score_opportunity_LowLimit(d) ==
    LET signals == ScoreSignals(d)
        total == RawTotal(signals)
    IN  [score |-> IF total >= 90 THEN 100 ELSE total,
         signals |-> signals,
         overflow |-> total >= 90]

\* _score_opportunity(ticker, data): (total_score, signals), and whether the
\* overflow branch (total > 100) was taken.
_score_opportunity(d) ==
    LET signals == ScoreSignals(d)
        total == RawTotal(signals)
    IN  [score |-> IF total > 100 THEN 100 ELSE total,
         signals |-> signals,
         overflow |-> total > 100]

\* f"{x:.1f}" of the quotient num / den, in tenths (den > 0, num >= 0).
OneDecimal(num, den) == (20 * num + den) \div (2 * den)

\* _generate_reasoning divides volume by avg_volume without a guard, but only
\* inside the momentum clause: ZeroDivisionError when avg_volume is 0 there.
ReasoningRaises(signals, d) == signals.momentum >= 15 /\ d.avg_volume = 0

\* The momentum clause of _generate_reasoning.  A clause is its template, the
\* numbers formatted into it (those printed with one decimal in tenths) and
\* the strings formatted into it.
MomentumClause(signals, d) ==
    IF signals.momentum >= 15
    THEN IF d.volume > 2 * d.avg_volume
         THEN <<[clause |-> "Strong momentum with +{}% on {}x volume",
                 args |-> <<10 * d.price_change_pct,
                            OneDecimal(d.volume, d.avg_volume)>>, words |-> <<>>]>>
         ELSE <<[clause |-> "Solid price momentum: +{}%",
                 args |-> <<10 * d.price_change_pct>>, words |-> <<>>]>>
    ELSE <<>>

\* The technical clause; price / high_52w > 0.8 is compared as
\* 5 * price > 4 * high_52w.
TechnicalClause(signals, d) ==
    IF signals.technical >= 15
    THEN IF Truthy(d.fifty_two_week_high)
              /\ 5 * d.price > 4 * d.fifty_two_week_high[1]
         THEN <<[clause |-> "Near 52-week high with RSI at {}", args |-> <<d.rsi>>, words |-> <<>>]>>
         ELSE <<[clause |-> "Favorable technical setup (RSI: {})",
                 args |-> <<d.rsi>>, words |-> <<>>]>>
    ELSE <<>>

\* The fundamental clause: revenue growth above 0.15 (in hundredths), else a
\* trailing P/E in (0, 25), else nothing.
FundamentalClause(signals, d) ==
    IF signals.fundamental >= 12
    THEN IF Truthy(d.revenue_growth) /\ d.revenue_growth[1] > 15
         THEN <<[clause |-> "Strong revenue growth ({}%)",
                 args |-> <<d.revenue_growth[1]>>, words |-> <<>>]>>
         ELSE IF Truthy(d.pe_ratio) /\ 0 < d.pe_ratio[1] /\ d.pe_ratio[1] < 25
         THEN <<[clause |-> "Attractive valuation (P/E: {})",
                 args |-> <<10 * d.pe_ratio[1]>>, words |-> <<>>]>>
         ELSE <<>>
    ELSE <<>>

\* The sector clause.
SectorClause(signals, d) ==
    IF signals.sector_match = 15
    THEN <<[clause |-> "Preferred sector: {}", args |-> <<>>, words |-> <<d.sector>>]>>
    ELSE <<>>

\* The generic sentence of _generate_reasoning when no clause was written.
ScoreTierClause(score) ==
    IF score >= 70
    THEN <<[clause |-> "Solid setup (score {}), no standout catalyst",
            args |-> <<score>>, words |-> <<>>]>>
    ELSE IF score >= 60
    THEN <<[clause |-> "Marginal setup (score {}), watch for confirmation",
            args |-> <<score>>, words |-> <<>>]>>
    ELSE <<[clause |-> "Weak setup (score {}), skip", args |-> <<score>>, words |-> <<>>]>>

\* _generate_reasoning(ticker, score, signals, data): the sentences of
\* ". ".join(reasons) + ".", in order.  Callers test ReasoningRaises first.
_generate_reasoning(score, signals, d) ==
    LET reasons == MomentumClause(signals, d) \o TechnicalClause(signals, d)
                     \o FundamentalClause(signals, d) \o SectorClause(signals, d)
    IN  IF reasons = <<>> THEN ScoreTierClause(score) ELSE reasons

\* The snapshots the scoring is exercised on: one value on each side of
\* every tier threshold of _score_opportunity.
PriceChanges == {4, 5, 10, 12}

Volumes == {<<41, 10>>, <<26, 10>>, <<19, 10>>, <<18, 10>>, <<41, 0>>}

Rsis == {44, 45, 52, 65, 71}

\* <<price, fifty_two_week_high, fifty_two_week_low>>
Ranges ==
    {<<20, Some(30), Some(10)>>, <<21, Some(30), Some(10)>>,
     <<22, Some(30), Some(10)>>,
     <<25, Some(30), Some(10)>>, <<28, Some(30), Some(10)>>,
     <<28, None, Some(10)>>, <<28, Some(30), None>>,
     <<20, Some(20), Some(20)>>}

PeRatios == {None, Some(18), Some(25), Some(40)}

ForwardPes == {None, Some(15)}

PbRatios == {None, Some(2), Some(3)}

RevenueGrowths == {None, Some(20), Some(25)}

Sectors == {"Technology", "Unknown"}

Snapshots ==
    {[price_change_pct |-> pc, volume |-> v[1], avg_volume |-> v[2], rsi |-> r,
      price |-> g[1], fifty_two_week_high |-> g[2], fifty_two_week_low |-> g[3],
      pe_ratio |-> pe, forward_pe |-> fpe, price_to_book |-> pb,
      revenue_growth |-> rg, sector |-> s] :
        pc \in PriceChanges, v \in Volumes, r \in Rsis, g \in Ranges,
        pe \in PeRatios, fpe \in ForwardPes, pb \in PbRatios,
        rg \in RevenueGrowths, s \in Sectors}

NotScored == [score |-> -1]

\* One call _score_opportunity(ticker, data).
ScoreOpportunity ==
    /\ scored = NotScored
    /\ scored' = _score_opportunity(data)
    /\ UNCHANGED <<data, scan, last_scan_stats, cache_file, metaVars, sizing,
                   committeeVars, threads, service>>

\* One call _generate_reasoning(ticker, score, signals, data) with the score
\* and signals _score_opportunity returned for the snapshot: the text, or the
\* ZeroDivisionError, is kept with the scoring.
GenerateReasoning ==
    /\ scored # NotScored
    /\ "reasoning" \notin DOMAIN scored
    /\ scored' =
          [score |-> scored.score, signals |-> scored.signals,
           overflow |-> scored.overflow,
           reasoning |->
               IF ReasoningRaises(scored.signals, data)
               THEN [raised |-> TRUE, text |-> <<>>]
               ELSE [raised |-> FALSE,
                     text |-> _generate_reasoning(scored.score, scored.signals,
                                                  data)]]
    /\ UNCHANGED <<data, scan, last_scan_stats, cache_file, metaVars, sizing,
                   committeeVars, threads, service>>

(***************************************************************************)
(* The screening filters, the label and the scan.  market_cap is in         *)
(* dollars and may be None (info.get("marketCap", 0) of a key that is       *)
(* present without a value); price is in dollars, target_price in cents.    *)
(***************************************************************************)
SCREENING_CRITERIA ==
    [market_cap |-> [min |-> 50000000, max |-> 2000000000],
     price_range |-> [min |-> 2, max |-> 50],
     volume_min |-> 100000,
     technicals |-> [rsi_min |-> 25, rsi_max |-> 75,
                     price_change_min |-> 1, price_change_max |-> 25]]

\* _apply_filters raises TypeError at its first comparison when market_cap is
\* None (None < 50_000_000).
FiltersRaise(d) == d.market_cap = None

\* _apply_filters rejecting a value that lies on a bound.
_apply_filters_Strict(d) ==
    LET market_cap == d.market_cap[1]
        price_change == Abs(d.price_change_pct)
    IN  /\ ~(market_cap <= SCREENING_CRITERIA.market_cap.min
               \/ market_cap >= SCREENING_CRITERIA.market_cap.max)
        /\ ~(d.price <= SCREENING_CRITERIA.price_range.min
               \/ d.price >= SCREENING_CRITERIA.price_range.max)
        /\ ~(d.volume <= SCREENING_CRITERIA.volume_min)
        /\ ~(d.rsi <= SCREENING_CRITERIA.technicals.rsi_min
               \/ d.rsi >= SCREENING_CRITERIA.technicals.rsi_max)
        /\ ~(price_change <= SCREENING_CRITERIA.technicals.price_change_min)
        /\ ~(price_change >= SCREENING_CRITERIA.technicals.price_change_max)

\* _apply_filters(ticker, data) for a numeric market_cap: every "return False"
\* condition is false.
_apply_filters(d) ==
    LET market_cap == d.market_cap[1]
        price_change == Abs(d.price_change_pct)
    IN  /\ ~(market_cap < SCREENING_CRITERIA.market_cap.min
               \/ market_cap > SCREENING_CRITERIA.market_cap.max)
        /\ ~(d.price < SCREENING_CRITERIA.price_range.min
               \/ d.price > SCREENING_CRITERIA.price_range.max)
        /\ ~(d.volume < SCREENING_CRITERIA.volume_min)
        /\ ~(d.rsi < SCREENING_CRITERIA.technicals.rsi_min
               \/ d.rsi > SCREENING_CRITERIA.technicals.rsi_max)
        /\ ~(price_change < SCREENING_CRITERIA.technicals.price_change_min)
        /\ ~(price_change > SCREENING_CRITERIA.technicals.price_change_max)

\* _get_recommendation with strict comparisons (> 85, > 75, > 65, > 60).
_get_recommendation_Strict(score) ==
    IF score > 85 THEN "Strong Buy"
    ELSE IF score > 75 THEN "Buy"
    ELSE IF score > 65 THEN "Consider"
    ELSE IF score > 60 THEN "Watch"
    ELSE "Skip"

\* _get_recommendation(score)
_get_recommendation(score) ==
    IF score >= 85 THEN "Strong Buy"
    ELSE IF score >= 75 THEN "Buy"
    ELSE IF score >= 65 THEN "Consider"
    ELSE IF score >= 60 THEN "Watch"
    ELSE "Skip"

\* _calculate_target_price(data, score), in cents: price is a whole number of
\* dollars here, so that round(.., 2) changes nothing.
_calculate_target_price(d, score) ==
    IF d.price = 0 THEN 0
    ELSE LET upside == IF score >= 80 THEN 20
                       ELSE IF score >= 70 THEN 15
                       ELSE IF score >= 60 THEN 10
                       ELSE 5
         IN  d.price * (100 + upside)

\* The dict the scan appends for a ticker that scored at least 60 (without
\* its reasoning text, source and scanned_at).
Opportunity(ticker, d, scoring) ==
    [ticker |-> ticker,
     score |-> scoring.score,
     price |-> d.price,
     market_cap |-> d.market_cap,
     sector |-> d.sector,
     signals |-> scoring.signals,
     recommendation |-> _get_recommendation(scoring.score),
     target_price |-> _calculate_target_price(d, scoring.score),
     reasoning |-> _generate_reasoning(scoring.score, scoring.signals, d)]

\* The loop variables of scan_for_opportunities before the first ticker.
ScanStart == [opportunities |-> <<>>, filtered_count |-> 0, error_count |-> 0]

\* The loop body leaving a ticker that scores below 60 uncounted.
ScanTicker_BelowThresholdUncounted(acc, ticker, ticker_data) ==
    IF ticker_data = None
    THEN [acc EXCEPT !.error_count = @ + 1]
    ELSE LET d == ticker_data[1]
         IN  IF FiltersRaise(d)
             THEN [acc EXCEPT !.error_count = @ + 1]
             ELSE IF ~_apply_filters(d)
             THEN [acc EXCEPT !.filtered_count = @ + 1]
             ELSE LET scoring == _score_opportunity(d)
                  IN  IF scoring.score >= 60
                      THEN IF ReasoningRaises(scoring.signals, d)
                           THEN [acc EXCEPT !.error_count = @ + 1]
                           ELSE [acc EXCEPT !.opportunities =
                                     Append(@, Opportunity(ticker, d, scoring))]
                      ELSE acc

\* The loop body counting a ticker without data as filtered.
ScanTicker_ErrorAsFiltered(acc, ticker, ticker_data) ==
    IF ticker_data = None
    THEN [acc EXCEPT !.filtered_count = @ + 1]
    ELSE LET d == ticker_data[1]
         IN  IF FiltersRaise(d)
             THEN [acc EXCEPT !.error_count = @ + 1]
             ELSE IF ~_apply_filters(d)
             THEN [acc EXCEPT !.filtered_count = @ + 1]
             ELSE LET scoring == _score_opportunity(d)
                  IN  IF scoring.score >= 60
                      THEN IF ReasoningRaises(scoring.signals, d)
                           THEN [acc EXCEPT !.error_count = @ + 1]
                           ELSE [acc EXCEPT !.opportunities =
                                     Append(@, Opportunity(ticker, d, scoring))]
                      ELSE [acc EXCEPT !.filtered_count = @ + 1]

\* The loop body of scan_for_opportunities for one ticker; ticker_data is
\* what _fetch_ticker_data returned, None after a failed fetch.
ScanTicker(acc, ticker, ticker_data) ==
    IF ticker_data = None
    THEN [acc EXCEPT !.error_count = @ + 1]
    ELSE LET d == ticker_data[1]
         IN  IF FiltersRaise(d)
             THEN [acc EXCEPT !.error_count = @ + 1]    \* the except branch
             ELSE IF ~_apply_filters(d)
             THEN [acc EXCEPT !.filtered_count = @ + 1]
             ELSE LET scoring == _score_opportunity(d)
                  IN  IF scoring.score >= 60
                      THEN IF ReasoningRaises(scoring.signals, d)
                           THEN [acc EXCEPT !.error_count = @ + 1]
                           ELSE [acc EXCEPT !.opportunities =
                                     Append(@, Opportunity(ticker, d, scoring))]
                      ELSE [acc EXCEPT !.filtered_count = @ + 1]

\* for ticker in universe: ...
RECURSIVE ScanLoop(_, _, _)
ScanLoop(universe, fetched, acc) ==
    IF universe = <<>> THEN acc
    ELSE ScanLoop(Tail(universe), fetched,
                  ScanTicker(acc, universe[1], fetched[universe[1]]))

\* InsertByScore putting the lower score first.
RECURSIVE InsertByScore_Ascending(_, _)
InsertByScore_Ascending(sorted, x) ==
    IF sorted = <<>> THEN <<x>>
    ELSE IF sorted[1].score <= x.score
         THEN <<sorted[1]>> \o InsertByScore_Ascending(Tail(sorted), x)
         ELSE <<x>> \o sorted

\* x placed behind every element of sorted whose score is at least its own.
RECURSIVE InsertByScore(_, _)
InsertByScore(sorted, x) ==
    IF sorted = <<>> THEN <<x>>
    ELSE IF sorted[1].score >= x.score
         THEN <<sorted[1]>> \o InsertByScore(Tail(sorted), x)
         ELSE <<x>> \o sorted

\* opportunities.sort(key=lambda x: x["score"], reverse=True): list.sort is
\* stable, also with reverse=True, so equal scores keep their list order.
RECURSIVE SortByScore(_, _)
SortByScore(sorted, rest) ==
    IF rest = <<>> THEN sorted
    ELSE SortByScore(InsertByScore(sorted, rest[1]), Tail(rest))

\* s[:m]
PySlice(s, m) ==
    IF m >= 0 THEN SubSeq(s, 1, Min(m, Len(s)))
    ELSE IF Len(s) + m > 0 THEN SubSeq(s, 1, Len(s) + m)
    ELSE <<>>

\* scan_for_opportunities(max_results) over the given universe: the list it
\* returns and the statistics it stores (without timestamp and scan_time).
scan_for_opportunities(universe, fetched, max_results) ==
    LET loop == ScanLoop(universe, fetched, ScanStart)
        opportunities == SortByScore(<<>>, loop.opportunities)
    IN  [returned |-> PySlice(opportunities, max_results),
         stats |-> [tickers_scanned |-> Len(universe),
                    opportunities_found |-> Len(opportunities),
                    filtered_count |-> loop.filtered_count,
                    error_count |-> loop.error_count]]

\* _save_to_cache(opportunities): the file rewritten (the write succeeding).
_save_to_cache(opportunities, stats) ==
    Some([opportunities |-> opportunities, stats |-> stats])

\* The snapshots _apply_filters is exercised on: on and next to every bound.
FilterSnapshots ==
    [market_cap : {None, Some(49999999), Some(50000000), Some(2000000000),
                   Some(2000000001)},
     price : {1, 2, 50, 51},
     volume : {99999, 100000},
     rsi : {24, 25, 75, 76},
     price_change_pct : {0, 1, -1, 25, -25, 26, -26}]

\* The scores _get_recommendation is exercised on.
LabelScores == 0..100

\* The number of tickers of the universe the scan is exercised on.
MaxTickers == 4

\* The first tickers of TEST_TICKER_UNIVERSE.
TEST_TICKER_UNIVERSE == <<"TSLA", "NVDA", "AMD", "PLTR", "SOFI", "RIVN">>

\* _get_ticker_universe(), cut to MaxTickers tickers.
_get_ticker_universe == SubSeq(TEST_TICKER_UNIVERSE, 1, MaxTickers)

\* A snapshot that passes every filter and scores 25 + 25 + 25 + 0 + 15 = 90.
Strong90 ==
    [price_change_pct |-> 12, volume |-> 500000, avg_volume |-> 100000, rsi |-> 60,
     price |-> 28, fifty_two_week_high |-> Some(30), fifty_two_week_low |-> Some(10),
     pe_ratio |-> Some(18), forward_pe |-> None, price_to_book |-> Some(2),
     revenue_growth |-> Some(25), sector |-> "Technology",
     market_cap |-> Some(500000000)]

\* Fundamental 10 instead of 25: the score is 75.
Buy75 == [Strong90 EXCEPT !.price_to_book = None, !.revenue_growth = None]

\* No sector bonus: the score is 60.
Watch60 == [Buy75 EXCEPT !.sector = "Unknown"]

\* No fundamental points either: the score is 50, below the threshold.
Weak50 == [Watch60 EXCEPT !.pe_ratio = None]

\* The metrics of Strong90 at a price above the price range.
TooExpensive ==
    [Strong90 EXCEPT !.price = 60, !.fifty_two_week_high = Some(65),
                     !.fifty_two_week_low = Some(20)]

\* The metrics of Strong90 without a market capitalisation.
CapMissing == [Strong90 EXCEPT !.market_cap = None]

\* What _fetch_ticker_data returns for a ticker: None, or a snapshot.
ScanOutcomes ==
    {None, Some(CapMissing), Some(TooExpensive), Some(Weak50), Some(Watch60),
     Some(Buy75), Some(Strong90)}

ScanMaxResults == {0, 1, 2, 10}

\* self.last_scan_stats = {}
EmptyDict == <<>>

\* OpportunityScannerAgent.__init__ without a cache file, no call in hand.
ScanIdle ==
    /\ scan = [op |-> "idle"]
    /\ last_scan_stats = EmptyDict
    /\ cache_file = None

\* One call _apply_filters(ticker, data).
ApplyFilters ==
    /\ scan.op = "_apply_filters"
    /\ scan.status = "called"
    /\ scan' = IF FiltersRaise(scan.data)
               THEN [op |-> "_apply_filters", status |-> "raised", data |-> scan.data]
               ELSE [op |-> "_apply_filters", status |-> "returned",
                     data |-> scan.data, result |-> _apply_filters(scan.data)]
    /\ UNCHANGED <<data, scored, last_scan_stats, cache_file, metaVars, sizing,
                   committeeVars, threads, service>>

\* One call _get_recommendation(score).
GetRecommendation ==
    /\ scan.op = "_get_recommendation"
    /\ scan.status = "called"
    /\ scan' = [op |-> "_get_recommendation", status |-> "returned",
                score |-> scan.score, result |-> _get_recommendation(scan.score)]
    /\ UNCHANGED <<data, scored, last_scan_stats, cache_file, metaVars, sizing,
                   committeeVars, threads, service>>

\* One call scan_for_opportunities(max_results); scan.fetched is what
\* _fetch_ticker_data returns for each ticker during the call.
ScanForOpportunities ==
    /\ scan.op = "scan_for_opportunities"
    /\ scan.status = "called"
    /\ LET r == scan_for_opportunities(_get_ticker_universe, scan.fetched,
                                       scan.max_results)
       IN  /\ scan' = [op |-> "scan_for_opportunities", status |-> "returned",
                       fetched |-> scan.fetched, max_results |-> scan.max_results,
                       returned |-> r.returned]
           /\ last_scan_stats' = r.stats
           /\ cache_file' = _save_to_cache(r.returned, r.stats)
    /\ UNCHANGED <<data, scored, metaVars, sizing, committeeVars, threads, service>>

(***************************************************************************)
(* agents/meta_agent.py                                                     *)
(*                                                                         *)
(* Units: a confidence is in hundredths; agreement_rate, diversity_score    *)
(* and a vote percentage are in 1/RateScale (of 1, resp. of one percent);   *)
(* base_confidence = sum / n is in 1/(100 * RateScale); the final           *)
(* confidence = base_confidence * penalty is in 1/(100 * RateScale * 100).  *)
(* RateScale is a multiple of every list length up to 6, so that every      *)
(* quotient by len(actions) is exact.                                       *)
(***************************************************************************)
RateScale == 2 * 2 * 3 * 5

\* MetaAgent.__init__: thresholds and penalties, in hundredths.
high_agreement_threshold == 80

low_agreement_threshold == 40

groupthink_penalty == 85

chaos_penalty == 90

\* The multiplier of the "healthy" branch, 1.0, in hundredths.
no_penalty == 100

\* rec.get("confidence", 0.5)
ConfidenceOf(rec) == IF rec.confidence = None THEN 50 ELSE rec.confidence[1]

\* rec.get("agent", "unknown")
AgentOf(rec) == IF rec.agent = None THEN "unknown" ELSE rec.agent[1]

\* Counter(actions): the distinct actions, in order of first occurrence
\* (a Counter is a dict, which keeps insertion order).
RECURSIVE CounterKeys(_, _)
CounterKeys(actions, seen) ==
    IF actions = <<>> THEN seen
    ELSE IF \E i \in DOMAIN seen : seen[i] = actions[1]
         THEN CounterKeys(Tail(actions), seen)
         ELSE CounterKeys(Tail(actions), Append(seen, actions[1]))

\* actions.count(action)
CountOf(actions, action) ==
    Cardinality({i \in DOMAIN actions : actions[i] = action})

\* MaxByCount replacing the best also on an equal count: the last maximum wins.
RECURSIVE MaxByCount_LastWins(_, _, _)
MaxByCount_LastWins(keys, actions, best) ==
    IF keys = <<>> THEN best
    ELSE IF CountOf(actions, keys[1]) >= CountOf(actions, best)
         THEN MaxByCount_LastWins(Tail(keys), actions, keys[1])
         ELSE MaxByCount_LastWins(Tail(keys), actions, best)

\* max(items, key=count), as most_common(1) computes it: scan the keys in
\* order and replace the best only by a strictly greater count.
RECURSIVE MaxByCount(_, _, _)
MaxByCount(keys, actions, best) ==
    IF keys = <<>> THEN best
    ELSE IF CountOf(actions, keys[1]) > CountOf(actions, best)
         THEN MaxByCount(Tail(keys), actions, keys[1])
         ELSE MaxByCount(Tail(keys), actions, best)

\* action_counts.most_common(1)[0][0], for a non-empty list.
MostCommonAction(actions) ==
    LET keys == CounterKeys(actions, <<>>)
    IN  MaxByCount(Tail(keys), actions, keys[1])

\* agreement_rate >= t and agreement_rate <= t for a threshold in hundredths.
RateAtLeast(rate, t) == rate * 100 >= t * RateScale

RateAtMost(rate, t) == rate * 100 <= t * RateScale

\* _calculate_diversity_penalty with strict comparisons (> 80%, < 40%), as
\* the class docstring words the thresholds.
_calculate_diversity_penalty_Strict(agreement_rate, num_agents) ==
    IF ~RateAtMost(agreement_rate, high_agreement_threshold)
    THEN [penalty |-> groupthink_penalty, warning |-> "HIGH AGREEMENT"]
    ELSE IF ~RateAtLeast(agreement_rate, low_agreement_threshold) /\ num_agents >= 3
    THEN [penalty |-> chaos_penalty, warning |-> "LOW AGREEMENT"]
    ELSE [penalty |-> no_penalty, warning |-> "Healthy diversity"]

\* _calculate_diversity_penalty returning the chaos penalty and warning from
\* its high-agreement branch.
_calculate_diversity_penalty_Swapped(agreement_rate, num_agents) ==
    IF RateAtLeast(agreement_rate, high_agreement_threshold)
    THEN [penalty |-> chaos_penalty, warning |-> "LOW AGREEMENT"]
    ELSE IF RateAtMost(agreement_rate, low_agreement_threshold) /\ num_agents >= 3
    THEN [penalty |-> chaos_penalty, warning |-> "LOW AGREEMENT"]
    ELSE [penalty |-> no_penalty, warning |-> "Healthy diversity"]

\* _calculate_diversity_penalty(agreement_rate, num_agents)
_calculate_diversity_penalty(agreement_rate, num_agents) ==
    IF RateAtLeast(agreement_rate, high_agreement_threshold)
    THEN [penalty |-> groupthink_penalty, warning |-> "HIGH AGREEMENT"]
    ELSE IF RateAtMost(agreement_rate, low_agreement_threshold) /\ num_agents >= 3
    THEN [penalty |-> chaos_penalty, warning |-> "LOW AGREEMENT"]
    ELSE [penalty |-> no_penalty, warning |-> "Healthy diversity"]

\* _generate_analysis with the groupthink caution from 0.90 on.
_generate_analysis_CautionAtNinety(agreement_rate) ==
    [agreement_desc |->
        IF RateAtLeast(agreement_rate, 90) THEN "unanimous"
        ELSE IF RateAtLeast(agreement_rate, 70) THEN "strong"
        ELSE IF RateAtLeast(agreement_rate, 50) THEN "moderate"
        ELSE "weak",
     caution |->
        IF RateAtLeast(agreement_rate, 90) THEN "High agreement"
        ELSE IF RateAtMost(agreement_rate, 40) THEN "Low agreement"
        ELSE "Healthy debate"]

\* _generate_analysis: the agreement descriptor and the cautionary clause.
_generate_analysis(agreement_rate) ==
    [agreement_desc |->
        IF RateAtLeast(agreement_rate, 90) THEN "unanimous"
        ELSE IF RateAtLeast(agreement_rate, 70) THEN "strong"
        ELSE IF RateAtLeast(agreement_rate, 50) THEN "moderate"
        ELSE "weak",
     caution |->
        IF RateAtLeast(agreement_rate, 80) THEN "High agreement"
        ELSE IF RateAtMost(agreement_rate, 40) THEN "Low agreement"
        ELSE "Healthy debate"]

\* AgentVotes listing every opinion's agent under every action.
AgentVotes_AllAgents(recs) ==
    LET actions == [i \in DOMAIN recs |-> recs[i].action]
    IN  [a \in {actions[i] : i \in DOMAIN actions} |->
            [count |-> CountOf(actions, a),
             percentage |-> (CountOf(actions, a) * RateScale * 100) \div Len(actions),
             agents |-> [i \in DOMAIN recs |-> AgentOf(recs[i])]]]

\* The agent breakdown: one entry per action of set(actions).
AgentVotes(recs) ==
    LET actions == [i \in DOMAIN recs |-> recs[i].action]
    IN  [a \in {actions[i] : i \in DOMAIN actions} |->
            [count |-> CountOf(actions, a),
             percentage |-> (CountOf(actions, a) * RateScale * 100) \div Len(actions),
             agents |-> LET sel == SelectSeq(recs, LAMBDA r : r.action = a)
                        IN  [i \in DOMAIN sel |-> AgentOf(sel[i])]]]

\* The degraded result without its "error" entry.
NoRecommendations_NoFlag == [action |-> "HOLD", confidence |-> 0]

\* The dict returned for an empty agent_recs.
NoRecommendations ==
    [action |-> "HOLD", confidence |-> 0,
     error |-> "No recommendations to aggregate"]

\* aggregate_recommendations(agent_recs, portfolio_context)
aggregate_recommendations(recs) ==
    IF recs = <<>>
    THEN NoRecommendations
    ELSE LET actions == [i \in DOMAIN recs |-> recs[i].action]
             confidences == [i \in DOMAIN recs |-> ConfidenceOf(recs[i])]
             most_common_action == MostCommonAction(actions)
             agreement_count == CountOf(actions, most_common_action)
             agreement_rate == (agreement_count * RateScale) \div Len(actions)
             diversity_score == RateScale - agreement_rate
             dp == _calculate_diversity_penalty(agreement_rate, Len(actions))
             base_confidence == (SumSeq(confidences) * RateScale) \div Len(confidences)
             final_confidence == base_confidence * dp.penalty
         IN  [action |-> most_common_action,
              confidence |-> final_confidence,
              base_confidence |-> base_confidence,
              diversity_score |-> diversity_score,
              agreement_rate |-> agreement_rate,
              diversity_penalty |-> dp.penalty,
              warning |-> dp.warning,
              agent_votes |-> AgentVotes(recs),
              total_agents |-> Len(actions),
              meta_analysis |-> _generate_analysis(agreement_rate)]

\* The opinion lists the aggregation is exercised on.
MaxOpinions == 5

Actions == {"BUY", "SELL", "HOLD"}

Confidences == {None, Some(85)}

Opinions == [action : Actions, confidence : Confidences]

\* The agent names of the module's own test cases; a later opinion carries
\* no "agent" key.
AgentNames == <<"technical", "risk", "momentum", "fundamental">>

AgentKey(i) == IF i <= Len(AgentNames) THEN Some(AgentNames[i]) ELSE None

RECURSIVE SeqsUpTo(_, _)
SeqsUpTo(S, n) ==
    IF n = 0 THEN {<<>>}
    ELSE LET shorter == SeqsUpTo(S, n - 1)
         IN  shorter \cup {Append(q, x) : q \in {t \in shorter : Len(t) = n - 1}, x \in S}

OpinionLists ==
    {[i \in DOMAIN q |->
        [action |-> q[i].action, confidence |-> q[i].confidence,
         agent |-> AgentKey(i)]] : q \in SeqsUpTo(Opinions, MaxOpinions)}

NotAggregated == [action |-> "none"]

\* One call aggregate_recommendations(agent_recs).
AggregateRecommendations ==
    /\ meta_result = NotAggregated
    /\ meta_result' = aggregate_recommendations(agent_recs)
    /\ UNCHANGED <<scannerVars, agent_recs, sizing, committeeVars, threads, service>>

(***************************************************************************)
(* agents/risk_committee.py                                                 *)
(*                                                                         *)
(* Units: confidence in hundredths, position_pct in thousandths of the      *)
(* portfolio, sector_exposure in hundredths, target_price and stop price in *)
(* cents, total_value in dollars, stop_loss_pct in percent (-25).           *)
(* A reasoning text and an arbiter reply are sequences of tokens            *)
(* [kind |-> "word", word |-> w] and [kind |-> "num", num |-> n].           *)
(***************************************************************************)
Word(w) == [kind |-> "word", word |-> w, num |-> 0]

Num(n) == [kind |-> "num", word |-> "", num |-> n]

\* str.lower() on the words of the model's vocabulary.
Lower(w) ==
    IF w \in {"Momentum", "MOMENTUM", "momentum"} THEN "momentum"
    ELSE IF w \in {"Shares", "shares"} THEN "shares"
    ELSE IF w \in {"Share", "share"} THEN "share"
    ELSE IF w \in {"Stop", "stop"} THEN "stop"
    ELSE w

\* "momentum" in recommendation.get("reasoning", "").lower()
MentionsMomentum(reasoning) ==
    \E i \in DOMAIN reasoning :
        reasoning[i].kind = "word" /\ Lower(reasoning[i].word) = "momentum"

\* The $1000 portfolio the three propose_position methods assume.
AssumedPortfolio == 1000

\* int(position_pct * 1000 / price); price = 0 raises ZeroDivisionError.
ProposedQty(position_pct, price) ==
    TruncDiv(position_pct * AssumedPortfolio * 100, 1000 * price)

\* RiskSeekingAgent.propose_position: position_pct, in thousandths.
SeekingPositionPct(rec) ==
    LET tier == IF rec.confidence >= 85 THEN 250
                ELSE IF rec.confidence >= 75 THEN 200
                ELSE 150
    IN  IF MentionsMomentum(rec.reasoning) THEN Min((tier * 12) \div 10, 300)
        ELSE tier

\* RiskNeutralAgent.propose_position: position_pct, in thousandths.
NeutralPositionPct(rec) ==
    IF rec.confidence >= 80 THEN 180
    ELSE IF rec.confidence >= 70 THEN 150
    ELSE 120

\* ConservativePositionPct reducing the tier already at sector_exposure = 0.30.
ConservativePositionPct_AtThirty(rec, portfolio_context) ==
    LET tier == IF rec.confidence >= 85 THEN 150
                ELSE IF rec.confidence >= 75 THEN 120
                ELSE 100
    IN  IF portfolio_context.sector_exposure >= 30 THEN (tier * 8) \div 10
        ELSE tier

\* RiskConservativeAgent.propose_position: position_pct, in thousandths.
ConservativePositionPct(rec, portfolio_context) ==
    LET tier == IF rec.confidence >= 85 THEN 150
                ELSE IF rec.confidence >= 75 THEN 120
                ELSE 100
    IN  IF portfolio_context.sector_exposure > 30 THEN (tier * 8) \div 10
        ELSE tier

\* stop_loss_pct * 100 of the three agent objects.
StopLossPct(agent) ==
    IF agent = "Risk-Seeking" THEN -25
    ELSE IF agent = "Risk-Neutral" THEN -20
    ELSE -15

\* The dict a propose_position method returns (price # 0).
Proposal(agent, position_pct, price) ==
    [agent |-> agent,
     proposed_qty |-> ProposedQty(position_pct, price),
     position_pct |-> position_pct,
     stop_loss_pct |-> StopLossPct(agent)]

\* The three propose_position calls of debate_position_sizing, in their
\* order; each raises ZeroDivisionError when target_price is 0.
ProposePositions(rec, portfolio_context) ==
    IF rec.target_price = 0
    THEN [raised |-> TRUE]
    ELSE [raised |-> FALSE,
          seeking |-> Proposal("Risk-Seeking", SeekingPositionPct(rec),
                               rec.target_price),
          neutral |-> Proposal("Risk-Neutral", NeutralPositionPct(rec),
                               rec.target_price),
          conservative |-> Proposal("Risk-Conservative",
                                    ConservativePositionPct(rec, portfolio_context),
                                    rec.target_price)]

\* StopPrice cutting the digits after the cents instead of rounding them.
StopPrice_Truncated(target_price, stop_pct) ==
    LET hundredths == target_price * (100 + stop_pct)
    IN  IF hundredths >= 0 THEN hundredths \div 100
        ELSE -((-hundredths) \div 100)

\* f"${stop_price:.2f}" for stop_price = target_price * (1 + stop_pct / 100):
\* the price in cents, rounded to the nearest cent.
StopPrice(target_price, stop_pct) ==
    LET hundredths == target_price * (100 + stop_pct)
    IN  IF hundredths >= 0 THEN (hundredths + 50) \div 100
        ELSE -((-hundredths + 50) \div 100)

\* _simulated_debate with strict comparisons (> 0.85, > 0.70).
_simulated_debate_Strict(rec, seeking, neutral, conservative) ==
    LET chosen == IF rec.confidence > 85 THEN seeking
                  ELSE IF rec.confidence > 70 THEN neutral
                  ELSE conservative
    IN  [consensus_qty |-> chosen.proposed_qty,
         reasoning |-> <<Word(chosen.agent)>>,
         stop_loss |-> [price |-> StopPrice(rec.target_price, chosen.stop_loss_pct),
                        pct |-> chosen.stop_loss_pct]]

\* _simulated_debate(recommendation, seeking, neutral, conservative)
_simulated_debate(rec, seeking, neutral, conservative) ==
    LET chosen == IF rec.confidence >= 85 THEN seeking
                  ELSE IF rec.confidence >= 70 THEN neutral
                  ELSE conservative
    IN  [consensus_qty |-> chosen.proposed_qty,
         reasoning |-> <<Word(chosen.agent)>>,
         stop_loss |-> [price |-> StopPrice(rec.target_price, chosen.stop_loss_pct),
                        pct |-> chosen.stop_loss_pct]]

\* re.search(r'(\d+)\s*shares?', text, re.IGNORECASE): the index of the
\* first number directly followed by "share" or "shares", 0 if there is none.
ShareMatch(text) ==
    LET hits == {i \in DOMAIN text :
                    /\ text[i].kind = "num"
                    /\ i + 1 \in DOMAIN text
                    /\ text[i + 1].kind = "word"
                    /\ Lower(text[i + 1].word) \in {"share", "shares"}}
    IN  IF hits = {} THEN 0 ELSE CHOOSE i \in hits : \A j \in hits : i <= j

\* re.search(r'(-?\d+)%?\s*stop', text, re.IGNORECASE): the index of the
\* first number followed, after an optional "%", by "stop"; 0 if none.
StopMatch(text) ==
    LET IsStop(j) == /\ j \in DOMAIN text
                     /\ text[j].kind = "word"
                     /\ Lower(text[j].word) = "stop"
        IsPct(j) == j \in DOMAIN text /\ text[j].kind = "word" /\ text[j].word = "%"
        hits == {i \in DOMAIN text :
                    /\ text[i].kind = "num"
                    /\ (IsStop(i + 1) \/ (IsPct(i + 1) /\ IsStop(i + 2)))}
    IN  IF hits = {} THEN 0 ELSE CHOOSE i \in hits : \A j \in hits : i <= j

\* _claude_debate whose except branch returns Neutral's proposal with the
\* default stop-loss instead of calling _simulated_debate.
_claude_debate_NoFallback(rec, seeking, neutral, conservative, arbiter) ==
    LET debate_summary == arbiter.text
        share_match == IF arbiter.raises THEN 0 ELSE ShareMatch(debate_summary)
        consensus_qty == IF share_match # 0
                         THEN Abs(debate_summary[share_match].num)
                         ELSE neutral.proposed_qty
        stop_match == IF arbiter.raises THEN 0 ELSE StopMatch(debate_summary)
        stop_pct == IF stop_match # 0
                    THEN (IF debate_summary[stop_match].num > 0
                          THEN -debate_summary[stop_match].num
                          ELSE debate_summary[stop_match].num)
                    ELSE -20
    IN  [consensus_qty |-> consensus_qty,
         reasoning |-> debate_summary,
         stop_loss |-> [price |-> StopPrice(rec.target_price, stop_pct),
                        pct |-> stop_pct]]

\* _claude_debate: the arbiter is called once; arbiter.raises is the call
\* raising (timeout, transport error), arbiter.text the reply otherwise.
_claude_debate(rec, seeking, neutral, conservative, arbiter) ==
    IF arbiter.raises
    THEN _simulated_debate(rec, seeking, neutral, conservative)
    ELSE LET debate_summary == arbiter.text
             share_match == ShareMatch(debate_summary)
             \* (\d+) takes the digits only: the sign is not part of the match
             consensus_qty == IF share_match # 0
                              THEN Abs(debate_summary[share_match].num)
                              ELSE neutral.proposed_qty
             stop_match == StopMatch(debate_summary)
             stop_pct == IF stop_match # 0
                         THEN (IF debate_summary[stop_match].num > 0
                               THEN -debate_summary[stop_match].num
                               ELSE debate_summary[stop_match].num)
                         ELSE -20
         IN  [consensus_qty |-> consensus_qty,
              reasoning |-> debate_summary,
              stop_loss |-> [price |-> StopPrice(rec.target_price, stop_pct),
                             pct |-> stop_pct]]

\* portfolio_context of debate_position_sizing, None replaced by the default.
DefaultContext == [sector_exposure |-> 20, total_value |-> 1000]

ContextOf(portfolio_context) ==
    IF portfolio_context = None THEN DefaultContext ELSE portfolio_context[1]

\* The resolution step of debate_position_sizing: _claude_debate when the
\* committee has an arbiter client, _simulated_debate otherwise.
ConsensusResult(rec, props, has_claude, arbiter) ==
    IF has_claude
    THEN _claude_debate(rec, props.seeking, props.neutral, props.conservative,
                        arbiter)
    ELSE _simulated_debate(rec, props.seeking, props.neutral, props.conservative)

\* Winner replacing the best also on an equal distance: the last minimum wins.
Winner_LastMin(consensus_qty, props) ==
    LET ds == Abs(consensus_qty - props.seeking.proposed_qty)
        dn == Abs(consensus_qty - props.neutral.proposed_qty)
        dc == Abs(consensus_qty - props.conservative.proposed_qty)
        best1 == IF dn <= ds THEN "Risk-Neutral" ELSE "Risk-Seeking"
        d1 == IF dn <= ds THEN dn ELSE ds
    IN  IF dc <= d1 THEN "Risk-Conservative" ELSE best1

\* min(distances, key=distances.get): the keys are scanned in insertion order
\* (Risk-Seeking, Risk-Neutral, Risk-Conservative) and the first minimum wins.
Winner(consensus_qty, props) ==
    LET ds == Abs(consensus_qty - props.seeking.proposed_qty)
        dn == Abs(consensus_qty - props.neutral.proposed_qty)
        dc == Abs(consensus_qty - props.conservative.proposed_qty)
        best1 == IF dn < ds THEN "Risk-Neutral" ELSE "Risk-Seeking"
        d1 == IF dn < ds THEN dn ELSE ds
    IN  IF dc < d1 THEN "Risk-Conservative" ELSE best1

\* The result dict debate_position_sizing builds (without its timestamp).
DebateResult(rec, props, consensus_result, winner) ==
    [original_rec |-> [action |-> rec.action, qty |-> rec.qty, ticker |-> rec.ticker,
                       target_price |-> rec.target_price],
     consensus |-> [action |-> rec.action, qty |-> consensus_result.consensus_qty],
     reasoning |-> consensus_result.reasoning,
     stop_loss |-> consensus_result.stop_loss,
     winner |-> winner,
     proposals |-> [seeking |-> props.seeking, neutral |-> props.neutral,
                    conservative |-> props.conservative]]

Postures == {"Risk-Seeking", "Risk-Neutral", "Risk-Conservative"}

\* _load_history(): the records of the history file, [] when there is none.
_load_history(file) == IF file = None THEN <<>> ELSE file[1]

\* _save_history(): the file rewritten with the whole of self.history (the
\* write succeeding).
_save_history(h) == Some(h)

\* history.append(result) losing the record.
history_append_Dropped(h, result) == h

\* history.append(result) putting the record in front.
history_append_Front(h, result) == <<result>> \o h

\* self.history.append(result)
history_append(h, result) == Append(h, result)

(***************************************************************************)
(* Inputs of the sizing committee                                           *)
(***************************************************************************)
Reasonings ==
    {<<Word("earnings"), Word("beat")>>,
     <<Word("Strong"), Word("Momentum"), Word("breakout")>>}

Recommendation(ticker, qty, price, reasoning, confidence) ==
    [ticker |-> ticker, action |-> "BUY", qty |-> qty, target_price |-> price,
     reasoning |-> reasoning, confidence |-> confidence]

\* The arbiter call raising, and replies with and without a parsable share
\* count and stop-loss number.
ArbiterRaises == [raises |-> TRUE, text |-> <<>>]

Reply(text) == [raises |-> FALSE, text |-> text]

ReplyBoth ==
    Reply(<<Word("Buy"), Num(20), Word("shares"), Word("with"), Num(15),
            Word("%"), Word("stop")>>)

ReplySharesOnly == Reply(<<Word("Take"), Num(16), Word("Shares")>>)

ReplyStopOnly == Reply(<<Word("Use"), Word("a"), Num(-10), Word("%"), Word("Stop")>>)

\* Numbers, but none before "shares" and none before "stop".
ReplyNeither ==
    Reply(<<Word("stop"), Word("at"), Num(18), Word("%"), Word("size"),
            Word("shares"), Num(30)>>)

ArbiterOutcomes ==
    {ArbiterRaises, ReplyBoth, ReplySharesOnly, ReplyStopOnly, ReplyNeither}

\* The arbiter input of a debate on a committee without a client.
NoArbiter == [raises |-> FALSE, text |-> <<>>]

(***************************************************************************)
(* One debate followed through its steps, without the bookkeeping: the      *)
(* three proposals, then the resolution by _simulated_debate or             *)
(* _claude_debate.                                                          *)
(***************************************************************************)
SizingConfidences == {69, 70, 75, 80, 84, 85}

SizingPrices == {-500, 0, 1000, 3628, 20000}

SizingContexts ==
    {None,
     Some([sector_exposure |-> 30, total_value |-> 1000]),
     Some([sector_exposure |-> 35, total_value |-> 1000]),
     Some([sector_exposure |-> 35, total_value |-> 10000])}

SizingInputs ==
    {[pc |-> "start",
      rec |-> Recommendation("APLD", 5, price, reasoning, confidence),
      portfolio_context |-> pctx, has_claude |-> path[1], arbiter |-> path[2]] :
        price \in SizingPrices, reasoning \in Reasonings,
        confidence \in SizingConfidences, pctx \in SizingContexts,
        path \in {<<TRUE, a>> : a \in ArbiterOutcomes} \cup {<<FALSE, NoArbiter>>}}

\* seeking_agent / neutral_agent / conservative_agent .propose_position
SizingPropose ==
    /\ sizing.pc = "start"
    /\ LET props == ProposePositions(sizing.rec, ContextOf(sizing.portfolio_context))
       IN  sizing' =
             IF props.raised
             THEN [pc |-> "raised", rec |-> sizing.rec,
                   portfolio_context |-> sizing.portfolio_context,
                   has_claude |-> sizing.has_claude, arbiter |-> sizing.arbiter]
             ELSE [pc |-> "proposed", rec |-> sizing.rec,
                   portfolio_context |-> sizing.portfolio_context,
                   has_claude |-> sizing.has_claude, arbiter |-> sizing.arbiter,
                   props |-> props]
    /\ UNCHANGED <<scannerVars, metaVars, committeeVars, threads, service>>

\* The resolution of the debate: self.claude decides between the two paths.
SizingResolve(path, consensus_result, arbiter_calls) ==
    sizing' = [pc |-> "resolved", rec |-> sizing.rec,
               portfolio_context |-> sizing.portfolio_context,
               has_claude |-> sizing.has_claude, arbiter |-> sizing.arbiter,
               props |-> sizing.props, path |-> path,
               consensus_result |-> consensus_result,
               arbiter_calls |-> arbiter_calls]

SizingSimulated ==
    /\ sizing.pc = "proposed"
    /\ ~sizing.has_claude
    /\ SizingResolve("simulated",
                     _simulated_debate(sizing.rec, sizing.props.seeking,
                                       sizing.props.neutral,
                                       sizing.props.conservative), 0)
    /\ UNCHANGED <<scannerVars, metaVars, committeeVars, threads, service>>

SizingClaude ==
    /\ sizing.pc = "proposed"
    /\ sizing.has_claude
    /\ SizingResolve("claude",
                     _claude_debate(sizing.rec, sizing.props.seeking,
                                    sizing.props.neutral,
                                    sizing.props.conservative, sizing.arbiter), 1)
    /\ UNCHANGED <<scannerVars, metaVars, committeeVars, threads, service>>

(***************************************************************************)
(* RiskCommittee.debate_position_sizing on the shared committee instance    *)
(***************************************************************************)
MaxDebates == 2

CommitteeRecs ==
    {Recommendation("APLD", 5, price, <<Word("earnings"), Word("beat")>>, confidence) :
        price \in {1000, 20000}, confidence \in {69, 70, 85}}
    \cup {Recommendation("SOUN", 5, 0, <<Word("earnings"), Word("beat")>>, 85),
          Recommendation("SOUN", 5, -500, <<Word("momentum")>>, 85)}

CommitteeContexts ==
    {None, Some([sector_exposure |-> 35, total_value |-> 10000])}

\* A record an earlier process left in the history file.
EarlierRecord ==
    LET rec == Recommendation("APLD", 5, 1000, <<Word("earnings"), Word("beat")>>, 85)
        props == ProposePositions(rec, DefaultContext)
        consensus_result == ConsensusResult(rec, props, FALSE, NoArbiter)
    IN  DebateResult(rec, props, consensus_result,
                     Winner(consensus_result.consensus_qty, props))

\* No history file, or the file one earlier debate left.
CommitteeHistoryFiles == {None, Some(<<EarlierRecord>>)}

CommitteeArbiters == {ArbiterRaises, ReplyBoth, ReplyNeither}

NoCall == [raised |-> FALSE, called |-> FALSE]

\* debate_position_sizing counting the debate before the proposals are made.
debate_position_sizing_CountsFirst(rec, portfolio_context, arbiter) ==
    /\ Len(history) < MaxDebates
    /\ LET ctx == ContextOf(portfolio_context)
           props == ProposePositions(rec, ctx)
       IN  IF props.raised
           THEN /\ last_call' = [called |-> TRUE, raised |-> TRUE, rec |-> rec,
                                 portfolio_context |-> portfolio_context]
                /\ debates' = [p \in Postures |-> debates[p] + 1]
                /\ UNCHANGED <<wins, history, history_file>>
           ELSE LET consensus_result == ConsensusResult(rec, props, claude, arbiter)
                    winner == Winner(consensus_result.consensus_qty, props)
                    result == DebateResult(rec, props, consensus_result, winner)
                IN  /\ wins' = [wins EXCEPT ![winner] = @ + 1]
                    /\ debates' = [p \in Postures |-> debates[p] + 1]
                    /\ history' = history_append(history, result)
                    /\ history_file' = _save_history(history')
                    /\ last_call' = [called |-> TRUE, raised |-> FALSE, rec |-> rec,
                                     portfolio_context |-> portfolio_context,
                                     arbiter |-> arbiter, result |-> result]
    /\ UNCHANGED <<scannerVars, metaVars, sizing, claude, threads>>

\* debate_position_sizing(recommendation, portfolio_context); arbiter is what
\* the arbiter call of this debate does when the arbiter is configured.
debate_position_sizing(rec, portfolio_context, arbiter) ==
    /\ Len(history) < MaxDebates
    /\ LET ctx == ContextOf(portfolio_context)
           props == ProposePositions(rec, ctx)
       IN  IF props.raised
           THEN /\ last_call' = [called |-> TRUE, raised |-> TRUE, rec |-> rec,
                                 portfolio_context |-> portfolio_context]
                /\ UNCHANGED <<wins, debates, history, history_file>>
           ELSE LET consensus_result == ConsensusResult(rec, props, claude, arbiter)
                    winner == Winner(consensus_result.consensus_qty, props)
                    result == DebateResult(rec, props, consensus_result, winner)
                IN  /\ wins' = [wins EXCEPT ![winner] = @ + 1]
                    /\ debates' = [p \in Postures |-> debates[p] + 1]
                    /\ history' = history_append(history, result)
                    /\ history_file' = _save_history(history')
                    /\ last_call' = [called |-> TRUE, raised |-> FALSE, rec |-> rec,
                                     portfolio_context |-> portfolio_context,
                                     arbiter |-> arbiter, result |-> result]
    /\ UNCHANGED <<scannerVars, metaVars, sizing, claude, threads>>

\* get_statistics(): total_debates and the win rates, each rate as the
\* fraction <<numerator, denominator>> of wins / total_debates * 100.
get_statistics ==
    LET total_debates == debates["Risk-Seeking"]
    IN  [total_debates |-> total_debates,
         win_rates |->
            [p \in Postures |->
                IF total_debates = 0 THEN <<0, 1>>
                ELSE <<wins[p] * 100, total_debates>>]]

DebatePositionSizing ==
    \E rec \in CommitteeRecs, pctx \in CommitteeContexts,
       arbiter \in (IF claude THEN CommitteeArbiters ELSE {NoArbiter}) :
        debate_position_sizing(rec, pctx, arbiter) /\ UNCHANGED service

(***************************************************************************)
(* debate_position_sizing run by several threads on the shared committee    *)
(* instance.  The method takes no lock.  "x.wins += 1" and                  *)
(* "agent.debates += 1" are a read of the attribute followed by a write of  *)
(* the sum, and another thread may run between the two; list.append is one  *)
(* step.  Each caller runs one debate, resolved by _simulated_debate.       *)
(***************************************************************************)
MaxCallers == 2

Callers == 1..MaxCallers

\* [self.seeking_agent, self.neutral_agent, self.conservative_agent]
AgentOrder == <<"Risk-Seeking", "Risk-Neutral", "Risk-Conservative">>

\* Confidence 0.85 resolves to Seeking's proposal, 0.69 to Conservative's.
ConcurrentRecs ==
    {Recommendation("APLD", 5, 1000, <<Word("earnings"), Word("beat")>>, confidence) :
        confidence \in {69, 85}}

\* Lines 411-483 and 497-512: proposals, resolution, winner and the result
\* dict, which read no shared attribute that a debate writes.
ThreadResolve(c) ==
    /\ threads[c].pc = "start"
    /\ \E rec \in ConcurrentRecs :
          LET props == ProposePositions(rec, DefaultContext)
              consensus_result == ConsensusResult(rec, props, claude, NoArbiter)
              winner == Winner(consensus_result.consensus_qty, props)
          IN  threads' = [threads EXCEPT ![c] =
                            [pc |-> "load_wins", i |-> 0, tmp |-> 0,
                             result |-> DebateResult(rec, props, consensus_result,
                                                     winner)]]
    /\ UNCHANGED <<scannerVars, metaVars, sizing, committeeVars, service>>

\* <winning agent>.wins += 1, the read.
ThreadLoadWins(c) ==
    /\ threads[c].pc = "load_wins"
    /\ threads' = [threads EXCEPT ![c].pc = "store_wins",
                                  ![c].tmp = wins[threads[c].result.winner]]
    /\ UNCHANGED <<scannerVars, metaVars, sizing, committeeVars, service>>

\* <winning agent>.wins += 1, the write.
ThreadStoreWins(c) ==
    /\ threads[c].pc = "store_wins"
    /\ wins' = [wins EXCEPT ![threads[c].result.winner] = threads[c].tmp + 1]
    /\ threads' = [threads EXCEPT ![c].pc = "load_debates", ![c].i = 1]
    /\ UNCHANGED <<scannerVars, metaVars, sizing, claude, debates, history,
                   history_file, last_call, service>>

\* agent.debates += 1 for the i-th agent, the read.
ThreadLoadDebates(c) ==
    /\ threads[c].pc = "load_debates"
    /\ threads' = [threads EXCEPT ![c].pc = "store_debates",
                                  ![c].tmp = debates[AgentOrder[threads[c].i]]]
    /\ UNCHANGED <<scannerVars, metaVars, sizing, committeeVars, service>>

\* agent.debates += 1 for the i-th agent, the write; then the next agent.
ThreadStoreDebates(c) ==
    /\ threads[c].pc = "store_debates"
    /\ debates' = [debates EXCEPT ![AgentOrder[threads[c].i]] = threads[c].tmp + 1]
    /\ threads' = IF threads[c].i < Len(AgentOrder)
                  THEN [threads EXCEPT ![c].pc = "load_debates", ![c].i = @ + 1]
                  ELSE [threads EXCEPT ![c].pc = "append"]
    /\ UNCHANGED <<scannerVars, metaVars, sizing, claude, wins, history,
                   history_file, last_call, service>>

\* self.history.append(result)
ThreadAppend(c) ==
    /\ threads[c].pc = "append"
    /\ history' = history_append(history, threads[c].result)
    /\ threads' = [threads EXCEPT ![c].pc = "save"]
    /\ UNCHANGED <<scannerVars, metaVars, sizing, claude, wins, debates,
                   history_file, last_call, service>>

\* self._save_history(), then return result.
ThreadSave(c) ==
    /\ threads[c].pc = "save"
    /\ history_file' = _save_history(history)
    /\ threads' = [threads EXCEPT ![c].pc = "done"]
    /\ UNCHANGED <<scannerVars, metaVars, sizing, claude, wins, debates, history,
                   last_call, service>>

(***************************************************************************)
(* api/services.py: RecommendationService._apply_risk_committee with the    *)
(* write-back of its callers, and test_analyst_pipeline.py, each on its own *)
(* committee instance.  A Recommendation object has an optional qty and an  *)
(* optional target_price (in cents).                                        *)
(***************************************************************************)
\* _apply_risk_committee sizing a HOLD as well.
SkipsCommittee_OnlyWithoutCommittee(risk_committee, recommendation) ==
    ~risk_committee

\* if not self.risk_committee or recommendation.action in ["HOLD"]: return None
SkipsCommittee(risk_committee, recommendation) ==
    ~risk_committee \/ recommendation.action \in {"HOLD"}

\* x or default, for an optional number.
OrDefault(x, default) == IF Truthy(x) THEN x[1] ELSE default

\* The rec_dict _apply_risk_committee hands to the committee.
RecDict(recommendation) ==
    [ticker |-> recommendation.ticker,
     action |-> recommendation.action,
     qty |-> OrDefault(recommendation.qty, 5),
     target_price |-> OrDefault(recommendation.target_price, 0),
     reasoning |-> recommendation.reasoning,
     confidence |-> recommendation.confidence]

\* The dict _apply_risk_committee returns from the committee's result.
RiskResult(recommendation, result) ==
    [original_qty |-> recommendation.qty,
     risk_adjusted_qty |-> result.proposals.neutral.proposed_qty,
     stop_loss |-> result.stop_loss,
     risk_debate_summary |-> result.reasoning,
     risk_winner |-> result.winner]

\* What a caller of _apply_risk_committee has after
\* "if risk_result: ...; rec.qty = risk_result['risk_adjusted_qty']".
ServiceReturned(recommendation, risk_result) ==
    [program |-> "api", risk_committee |-> service.risk_committee,
     op |-> "_apply_risk_committee",
     recommendation |-> recommendation,
     returned |-> risk_result,
     qty |-> IF risk_result # None
             THEN Some(risk_result[1].risk_adjusted_qty)
             ELSE recommendation.qty]

\* The recommendations the service is exercised on: each action, a missing
\* qty and a missing target_price, confidences resolving to each posture.
ServiceRecs ==
    {[ticker |-> "APLD", action |-> "BUY", qty |-> Some(10),
      target_price |-> Some(1000),
      reasoning |-> <<Word("earnings"), Word("beat")>>, confidence |-> 85],
     [ticker |-> "UUUU", action |-> "ADD", qty |-> None,
      target_price |-> Some(1000),
      reasoning |-> <<Word("earnings"), Word("beat")>>, confidence |-> 72],
     [ticker |-> "NTLA", action |-> "BUY", qty |-> Some(10),
      target_price |-> None,
      reasoning |-> <<Word("earnings"), Word("beat")>>, confidence |-> 78],
     [ticker |-> "NTLA", action |-> "HOLD", qty |-> Some(10),
      target_price |-> Some(1000),
      reasoning |-> <<Word("earnings"), Word("beat")>>, confidence |-> 85],
     [ticker |-> "CRWV", action |-> "HOLD", qty |-> None,
      target_price |-> None,
      reasoning |-> <<Word("earnings"), Word("beat")>>, confidence |-> 69]}

ServiceArbiters == {ArbiterRaises, ReplyBoth}

\* _apply_risk_committee(recommendation, portfolio_context) and the
\* write-back of get_recommendations / the analyze endpoint.  A raise of the
\* committee is caught and None is returned.
ApplyRiskCommittee ==
    /\ service.program = "api"
    /\ \E recommendation \in ServiceRecs, pctx \in CommitteeContexts,
          arbiter \in (IF claude THEN ServiceArbiters ELSE {NoArbiter}) :
          IF SkipsCommittee(service.risk_committee, recommendation)
          THEN /\ service' = ServiceReturned(recommendation, None)
               /\ UNCHANGED <<scannerVars, metaVars, sizing, committeeVars, threads>>
          ELSE /\ debate_position_sizing(RecDict(recommendation), pctx, arbiter)
               /\ service' =
                    ServiceReturned(recommendation,
                        IF last_call'.raised THEN None
                        ELSE Some(RiskResult(recommendation, last_call'.result)))

\* The consensus actions and confidences (in hundredths, after the / 100 of
\* the script) the pipeline is exercised on; the target price is in cents.
PipelineOutcomes ==
    [action : {"BUY", "SELL", "HOLD"}, confidence : {70, 85},
     price : {0, 1000}]

\* The mock portfolio of test_full_pipeline: no sector_exposure key.
PipelineContext == Some([sector_exposure |-> 0, total_value |-> 1000])

\* test_full_pipeline from the consensus on: the committee is asked only for
\* a BUY or a SELL; a raise of the committee ends the script.
TestFullPipeline ==
    /\ service.program = "test_analyst_pipeline"
    /\ service.op = "start"
    /\ \E meta \in PipelineOutcomes,
          arbiter \in (IF claude THEN ServiceArbiters ELSE {NoArbiter}) :
          IF meta.action \in {"BUY", "SELL"}
          THEN /\ debate_position_sizing(
                     [ticker |-> "APLD", action |-> meta.action, qty |-> 5,
                      target_price |-> meta.price,
                      reasoning |-> <<Word("Strong"), Word("consensus")>>,
                      confidence |-> meta.confidence],
                     PipelineContext, arbiter)
               /\ service' = [program |-> "test_analyst_pipeline", op |-> "done",
                              action |-> meta.action, debated |-> TRUE]
          ELSE /\ service' = [program |-> "test_analyst_pipeline", op |-> "done",
                              action |-> meta.action, debated |-> FALSE]
               /\ UNCHANGED <<scannerVars, metaVars, sizing, committeeVars, threads>>

(***************************************************************************)
(* Specifications                                                           *)
(***************************************************************************)
ScannerIdle == data = None /\ scored = NotScored /\ ScanIdle

MetaIdle == agent_recs = <<>> /\ meta_result = NotAggregated

SizingIdle == sizing = [pc |-> "idle"]

\* RiskSeekingAgent / RiskNeutralAgent / RiskConservativeAgent / RiskCommittee
\* .__init__: the counters start at 0, the history is read from the file.
CommitteeInit ==
    /\ wins = [p \in Postures |-> 0]
    /\ debates = [p \in Postures |-> 0]
    /\ history = _load_history(history_file)
    /\ last_call = NoCall

\* No concurrent callers.
NoThreads == <<>>

\* No program has the committee in use.
ServiceIdle == service = [program |-> "none"]

CommitteeIdle ==
    /\ claude = FALSE /\ history_file = None /\ CommitteeInit
    /\ threads = NoThreads /\ ServiceIdle

InitScanner ==
    /\ data \in Snapshots
    /\ scored = NotScored
    /\ ScanIdle
    /\ MetaIdle /\ SizingIdle /\ CommitteeIdle

NextScanner == ScoreOpportunity \/ GenerateReasoning

SpecScanner == InitScanner /\ [][NextScanner]_vars

\* A scanner without a cache file and one call of _apply_filters,
\* _get_recommendation or scan_for_opportunities in hand.
InitScan ==
    /\ \/ \E d \in FilterSnapshots :
             scan = [op |-> "_apply_filters", status |-> "called", data |-> d]
       \/ \E score \in LabelScores :
             scan = [op |-> "_get_recommendation", status |-> "called",
                     score |-> score]
       \/ \E fetched \in [{_get_ticker_universe[i] : i \in 1..MaxTickers}
                              -> ScanOutcomes],
              max_results \in ScanMaxResults :
             scan = [op |-> "scan_for_opportunities", status |-> "called",
                     fetched |-> fetched, max_results |-> max_results]
    /\ last_scan_stats = EmptyDict
    /\ cache_file = None
    /\ data = None /\ scored = NotScored
    /\ MetaIdle /\ SizingIdle /\ CommitteeIdle

NextScan == ApplyFilters \/ GetRecommendation \/ ScanForOpportunities

SpecScan == InitScan /\ [][NextScan]_vars

InitMeta ==
    /\ agent_recs \in OpinionLists
    /\ meta_result = NotAggregated
    /\ ScannerIdle /\ SizingIdle /\ CommitteeIdle

NextMeta == AggregateRecommendations

SpecMeta == InitMeta /\ [][NextMeta]_vars

InitSizing ==
    /\ sizing \in SizingInputs
    /\ ScannerIdle /\ MetaIdle /\ CommitteeIdle

NextSizing == SizingPropose \/ SizingSimulated \/ SizingClaude

SpecSizing == InitSizing /\ [][NextSizing]_vars

InitCommittee ==
    /\ claude \in BOOLEAN
    /\ history_file \in CommitteeHistoryFiles
    /\ CommitteeInit
    /\ threads = NoThreads /\ ServiceIdle
    /\ ScannerIdle /\ MetaIdle /\ SizingIdle

NextCommittee == DebatePositionSizing

SpecCommittee == InitCommittee /\ [][NextCommittee]_vars

\* A committee without arbiter client and history file, and MaxCallers
\* threads about to call debate_position_sizing on it.
InitConcurrent ==
    /\ claude = FALSE
    /\ history_file = None
    /\ CommitteeInit
    /\ threads = [c \in Callers |-> [pc |-> "start"]]
    /\ ServiceIdle
    /\ ScannerIdle /\ MetaIdle /\ SizingIdle

NextConcurrent ==
    \E c \in Callers :
        \/ ThreadResolve(c)
        \/ ThreadLoadWins(c)
        \/ ThreadStoreWins(c)
        \/ ThreadLoadDebates(c)
        \/ ThreadStoreDebates(c)
        \/ ThreadAppend(c)
        \/ ThreadSave(c)

SpecConcurrent == InitConcurrent /\ [][NextConcurrent]_vars

\* A RecommendationService with or without a committee (RISK_AGENTS_AVAILABLE),
\* or the pipeline script about to run, on a committee with or without an
\* arbiter and no history file.
InitService ==
    /\ service \in {[program |-> "api", risk_committee |-> b, op |-> "idle"] :
                       b \in BOOLEAN}
                   \cup {[program |-> "test_analyst_pipeline", op |-> "start"]}
    /\ claude \in BOOLEAN
    /\ history_file = None
    /\ CommitteeInit
    /\ threads = NoThreads
    /\ ScannerIdle /\ MetaIdle /\ SizingIdle

NextService == ApplyRiskCommittee \/ TestFullPipeline

SpecService == InitService /\ [][NextService]_vars

(***************************************************************************)
(* Properties of the scoring engine (SpecScanner)                           *)
(***************************************************************************)
\* C1: for every snapshot, _score_opportunity returns 0 <= momentum <= 25,
\* 0 <= technical <= 25, 0 <= fundamental <= 25, 0 <= sentiment <= 10,
\* sector_match in {0, 15}, and a total that is the sum of the five signals
\* and lies in 0..100.
C1_SignalsWithinCaps ==
    scored # NotScored =>
        /\ scored.signals.momentum \in 0..25
        /\ scored.signals.technical \in 0..25
        /\ scored.signals.fundamental \in 0..25
        /\ scored.signals.sentiment \in 0..10
        /\ scored.signals.sector_match \in {0, 15}
        /\ scored.score = scored.signals.momentum + scored.signals.technical
                            + scored.signals.fundamental + scored.signals.sentiment
                            + scored.signals.sector_match
        /\ scored.score \in 0..100

\* A snapshot scored with every capped category at its cap that can be reached.
C1_Witness ==
    /\ scored # NotScored
    /\ scored.signals.momentum = 25
    /\ scored.signals.technical = 25
    /\ scored.signals.fundamental = 25
    /\ scored.signals.sector_match = 15
    /\ scored.score = 90

(***************************************************************************)
(* Properties of the consensus aggregator (SpecMeta)                        *)
(***************************************************************************)
Aggregated == meta_result # NotAggregated

ActionsOf(recs) == [i \in DOMAIN recs |-> recs[i].action]

\* The greatest number of votes any action has in the list.
TopCount(recs) ==
    LET counts == {CountOf(ActionsOf(recs), a) : a \in Actions}
    IN  CHOOSE c \in counts : \A d \in counts : d <= c

FirstOccurrence(recs, a) ==
    CHOOSE i \in DOMAIN recs :
        recs[i].action = a /\ \A j \in 1..(i - 1) : recs[j].action # a

\* The multiplier the penalty rule prescribes for top votes out of n opinions.
ExpectedPenalty(top, n) ==
    IF 100 * top >= 80 * n THEN 85
    ELSE IF 100 * top <= 40 * n /\ n >= 3 THEN 90
    ELSE 100

C3_ConsensusAction ==
    (Aggregated /\ agent_recs # <<>>) =>
        LET n == Len(agent_recs)
            acts == ActionsOf(agent_recs)
            present == {acts[i] : i \in DOMAIN acts}
            won == meta_result.action
        IN  /\ won \in present
            /\ \A a \in present :
                  \/ CountOf(acts, won) > CountOf(acts, a)
                  \/ /\ CountOf(acts, won) = CountOf(acts, a)
                     /\ FirstOccurrence(agent_recs, won) <= FirstOccurrence(agent_recs, a)
            /\ meta_result.agreement_rate * n = CountOf(acts, won) * RateScale
            /\ meta_result.agreement_rate > 0
            /\ meta_result.agreement_rate <= RateScale
            /\ meta_result.diversity_score = RateScale - meta_result.agreement_rate

\* Two actions tie for the greatest count, neither is the first opinion's, and
\* the one that occurs first of the two is the consensus.
C3_Witness ==
    /\ Aggregated
    /\ Len(agent_recs) = 5
    /\ meta_result.action # agent_recs[1].action
    /\ \E a \in Actions :
          /\ a # meta_result.action
          /\ CountOf(ActionsOf(agent_recs), a) = TopCount(agent_recs)
          /\ FirstOccurrence(agent_recs, a) > FirstOccurrence(agent_recs, meta_result.action)

\* C4: with 1 or 2 opinions the low-agreement (0.90) penalty is never applied:
\* the multiplier is 0.85 or 1.0.
C4_NoChaosBelowThree ==
    (Aggregated /\ Len(agent_recs) \in {1, 2}) =>
        /\ meta_result.diversity_penalty \in {85, 100}
        /\ meta_result.warning # "LOW AGREEMENT"

\* Two opinions that disagree: the lowest agreement fewer than 3 opinions give.
C4_Witness ==
    /\ Aggregated
    /\ Len(agent_recs) = 2
    /\ agent_recs[1].action # agent_recs[2].action
    /\ meta_result.diversity_penalty = 100

\* C10: an empty opinion list gives action HOLD, confidence 0 and the "error"
\* entry as the no-data indicator.
C10_EmptyInput ==
    (Aggregated /\ agent_recs = <<>>) =>
        /\ meta_result.action = "HOLD"
        /\ meta_result.confidence = 0
        /\ "error" \in DOMAIN meta_result
        /\ meta_result.error = "No recommendations to aggregate"

C10_Witness ==
    /\ Aggregated
    /\ agent_recs = <<>>
    /\ meta_result.action = "HOLD"

(***************************************************************************)
(* Properties of one debate's proposals and resolution (SpecSizing)         *)
(***************************************************************************)
\* C5: _simulated_debate resolves to Seeking's quantity and stop-loss percent
\* when confidence >= 0.85, Neutral's when 0.70 <= confidence < 0.85 and
\* Conservative's when confidence < 0.70.
C5_FallbackSelection ==
    (sizing.pc = "resolved" /\ sizing.path = "simulated") =>
        LET c == sizing.rec.confidence
            cr == sizing.consensus_result
            Selected(p) == /\ cr.consensus_qty = p.proposed_qty
                           /\ cr.stop_loss.pct = p.stop_loss_pct
        IN  /\ c >= 85 => Selected(sizing.props.seeking) /\ cr.stop_loss.pct = -25
            /\ (c >= 70 /\ c < 85) =>
                  Selected(sizing.props.neutral) /\ cr.stop_loss.pct = -20
            /\ c < 70 => Selected(sizing.props.conservative) /\ cr.stop_loss.pct = -15

\* Confidence exactly 0.85 on the fallback path, the three proposals distinct.
C5_Witness ==
    /\ sizing.pc = "resolved"
    /\ sizing.path = "simulated"
    /\ sizing.rec.confidence = 85
    /\ sizing.props.seeking.proposed_qty > sizing.props.neutral.proposed_qty
    /\ sizing.props.neutral.proposed_qty > sizing.props.conservative.proposed_qty
    /\ sizing.consensus_result.consensus_qty = sizing.props.seeking.proposed_qty

\* C8 as stated: every proposed quantity is
\* floor(position_percent * portfolio_value / target_price) for the
\* total_value the caller supplied.
C8_UsesSuppliedPortfolioValue ==
    (sizing.pc \in {"proposed", "resolved"} /\ sizing.rec.target_price > 0) =>
        LET total_value == ContextOf(sizing.portfolio_context).total_value
            Qty(p) == (p.position_pct * total_value * 100)
                        \div (1000 * sizing.rec.target_price)
        IN  /\ sizing.props.seeking.proposed_qty = Qty(sizing.props.seeking)
            /\ sizing.props.neutral.proposed_qty = Qty(sizing.props.neutral)
            /\ sizing.props.conservative.proposed_qty = Qty(sizing.props.conservative)

\* The quantity and stop-loss _simulated_debate selects for the debate in hand.
FallbackOf(z) ==
    _simulated_debate(z.rec, z.props.seeking, z.props.neutral, z.props.conservative)

ArbiterResolved == sizing.pc = "resolved" /\ sizing.path = "claude"

PostureOrder(p) ==
    IF p = "Risk-Seeking" THEN 1 ELSE IF p = "Risk-Neutral" THEN 2 ELSE 3

\* |resolved quantity - the quantity posture p proposed| in a result record.
Distance(result, p) ==
    LET prop == IF p = "Risk-Seeking" THEN result.proposals.seeking
                ELSE IF p = "Risk-Neutral" THEN result.proposals.neutral
                ELSE result.proposals.conservative
    IN  Abs(result.consensus.qty - prop.proposed_qty)

\* p is closest to the resolved quantity, first in the order Seeking, Neutral,
\* Conservative among the closest.
IsClosest(result, p) ==
    \A q \in Postures :
        \/ Distance(result, p) < Distance(result, q)
        \/ Distance(result, p) = Distance(result, q) /\ PostureOrder(p) <= PostureOrder(q)

\* C6: a resolved debate records as winner the posture whose proposed quantity
\* is closest to the resolved quantity (ties in the order Seeking, Neutral,
\* Conservative); that posture's win counter alone grows by 1 and every
\* posture's debate counter grows by 1.
C6_WinnerAttribution ==
    [][history' # history =>
        LET result == history'[Len(history')]
        IN  /\ Len(history') = Len(history) + 1
            /\ result.winner \in Postures
            /\ IsClosest(result, result.winner)
            /\ \A p \in Postures :
                  /\ wins'[p] = wins[p] + (IF p = result.winner THEN 1 ELSE 0)
                  /\ debates'[p] = debates[p] + 1]_vars

\* A second debate in which Neutral and Conservative are equally close to the
\* resolved quantity and Neutral is recorded, its counter grown.
C6_Witness ==
    /\ Len(history) = 2
    /\ LET result == history[2]
       IN  /\ result.winner = "Risk-Neutral"
           /\ Distance(result, "Risk-Neutral") = Distance(result, "Risk-Conservative")
           /\ Distance(result, "Risk-Seeking") > Distance(result, "Risk-Neutral")
    /\ wins["Risk-Neutral"] >= 1
    /\ debates["Risk-Conservative"] = 2

\* C7 as stated: a call with target_price <= 0 raises nothing, proposes the
\* quantity 0 three times, reports the stop-loss price 0 and flags the input
\* as degraded.
C7_NonPositivePriceDegrades ==
    (last_call.called /\ last_call.rec.target_price <= 0) =>
        /\ ~last_call.raised
        /\ last_call.result.proposals.seeking.proposed_qty = 0
        /\ last_call.result.proposals.neutral.proposed_qty = 0
        /\ last_call.result.proposals.conservative.proposed_qty = 0
        /\ last_call.result.stop_loss.price = 0
        /\ "degraded" \in DOMAIN last_call.result

(***************************************************************************)
(* Properties of the position tiers and the stop-loss (SpecSizing)          *)
(***************************************************************************)
\* The greatest position_pct of each posture (max_position_size), thousandths.
MaxPositionSize(p) ==
    IF p = "Risk-Seeking" THEN 300 ELSE IF p = "Risk-Neutral" THEN 200 ELSE 150

\* C18: Seeking proposes 25% / 20% / 15% of the portfolio at confidence
\* >= 0.85 / >= 0.75 / below, times 1.2 and capped at 30% when the reasoning
\* contains "momentum" in any letter case; Neutral 18% / 15% / 12% at
\* >= 0.80 / >= 0.70 / below; Conservative 15% / 12% / 10% at >= 0.85 /
\* >= 0.75 / below, times 0.8 when sector_exposure > 0.30 (strictly); and no
\* posture's percent exceeds its maximum position (30%, 20%, 15%).
C18_PositionTiers ==
    sizing.pc \in {"proposed", "resolved"} =>
        LET c == sizing.rec.confidence
            ctx == ContextOf(sizing.portfolio_context)
            momentum == \E i \in DOMAIN sizing.rec.reasoning :
                           sizing.rec.reasoning[i].word
                               \in {"momentum", "Momentum", "MOMENTUM"}
            s == sizing.props.seeking.position_pct
            n == sizing.props.neutral.position_pct
            k == sizing.props.conservative.position_pct
        IN  /\ (c >= 85 /\ ~momentum) => s = 250
            /\ (c >= 75 /\ c < 85 /\ ~momentum) => s = 200
            /\ (c < 75 /\ ~momentum) => s = 150
            /\ (c >= 85 /\ momentum) => s = 300
            /\ (c >= 75 /\ c < 85 /\ momentum) => s = 240
            /\ (c < 75 /\ momentum) => s = 180
            /\ c >= 80 => n = 180
            /\ (c >= 70 /\ c < 80) => n = 150
            /\ c < 70 => n = 120
            /\ (c >= 85 /\ ctx.sector_exposure <= 30) => k = 150
            /\ (c >= 75 /\ c < 85 /\ ctx.sector_exposure <= 30) => k = 120
            /\ (c < 75 /\ ctx.sector_exposure <= 30) => k = 100
            /\ (c >= 85 /\ ctx.sector_exposure > 30) => k = 120
            /\ (c >= 75 /\ c < 85 /\ ctx.sector_exposure > 30) => k = 96
            /\ (c < 75 /\ ctx.sector_exposure > 30) => k = 80
            /\ s <= MaxPositionSize("Risk-Seeking")
            /\ n <= MaxPositionSize("Risk-Neutral")
            /\ k <= MaxPositionSize("Risk-Conservative")

\* Sector exposure exactly 0.30 leaves Conservative's tier whole while a
\* "Momentum" reasoning lifts Seeking's 25% to the 30% cap.
C18_Witness ==
    /\ sizing.pc = "proposed"
    /\ sizing.rec.confidence = 85
    /\ sizing.portfolio_context # None
    /\ sizing.portfolio_context[1].sector_exposure = 30
    /\ MentionsMomentum(sizing.rec.reasoning)
    /\ sizing.props.seeking.position_pct = 300
    /\ sizing.props.conservative.position_pct = 150

\* The fallback resolved the debate in hand: no arbiter client, or the
\* arbiter call raised.
FallbackResolved ==
    /\ sizing.pc = "resolved"
    /\ sizing.path = "simulated" \/ sizing.arbiter.raises

\* The stop-loss percent of the posture the fallback selects at confidence c.
SelectedStopPct(c) == IF c >= 85 THEN -25 ELSE IF c >= 70 THEN -20 ELSE -15

RECURSIVE SumOver(_, _)
\* The sum of f[x] over the elements x of the finite set S.
SumOver(S, f) ==
    IF S = {} THEN 0
    ELSE LET x == CHOOSE y \in S : TRUE IN f[x] + SumOver(S \ {x}, f)

\* The positions of the opinions for action a, up to position i.
VotesUpTo(recs, a, i) == {j \in 1..i : recs[j].action = a}

C15_AppendOnlyHistory ==
    [][/\ Len(history') >= Len(history)
       /\ SubSeq(history', 1, Len(history)) = history
       /\ (last_call'.called /\ ~last_call'.raised) =>
             /\ Len(history') = Len(history) + 1
             /\ history'[Len(history')] = last_call'.result
       /\ (last_call'.called /\ last_call'.raised) => history' = history]_vars

\* A debate completed on a committee that had loaded one earlier record: the
\* earlier record is still first, the new and different one is last.
C15_Witness ==
    /\ Len(history) = 2
    /\ debates["Risk-Seeking"] = 1
    /\ history[1] = EarlierRecord
    /\ last_call.called /\ ~last_call.raised
    /\ history[2] = last_call.result
    /\ history[2] # history[1]

(***************************************************************************)
(* Properties of the filters, the label and the scan (SpecScan)             *)
(***************************************************************************)
LabelRank(label) ==
    IF label = "Strong Buy" THEN 4 ELSE IF label = "Buy" THEN 3
    ELSE IF label = "Consider" THEN 2 ELSE IF label = "Watch" THEN 1 ELSE 0

\* C19: for every integer score in 0..100 _get_recommendation returns
\* "Strong Buy" for score >= 85, "Buy" for 75..84, "Consider" for 65..74,
\* "Watch" for 60..64 and "Skip" below 60, and no lower score has a label of
\* a higher tier.
C19_RecommendationLabel ==
    (scan.op = "_get_recommendation" /\ scan.status = "returned") =>
        /\ scan.result = "Strong Buy" <=> scan.score >= 85
        /\ scan.result = "Buy" <=> (75 <= scan.score /\ scan.score <= 84)
        /\ scan.result = "Consider" <=> (65 <= scan.score /\ scan.score <= 74)
        /\ scan.result = "Watch" <=> (60 <= scan.score /\ scan.score <= 64)
        /\ scan.result = "Skip" <=> scan.score < 60
        /\ \A lower \in 0..scan.score :
              LabelRank(_get_recommendation(lower)) <= LabelRank(scan.result)

\* The lowest score of the "Buy" tier.
C19_Witness ==
    /\ scan.op = "_get_recommendation"
    /\ scan.status = "returned"
    /\ scan.score = 75
    /\ scan.result = "Buy"

\* The five ranges a snapshot has to lie in, bounds included.
WithinCriteria(d) ==
    /\ d.market_cap # None
    /\ 50000000 <= d.market_cap[1] /\ d.market_cap[1] <= 2000000000
    /\ 2 <= d.price /\ d.price <= 50
    /\ d.volume >= 100000
    /\ 25 <= d.rsi /\ d.rsi <= 75
    /\ \/ 1 <= d.price_change_pct /\ d.price_change_pct <= 25
       \/ 1 <= -d.price_change_pct /\ -d.price_change_pct <= 25

ScanReturned == scan.op = "scan_for_opportunities" /\ scan.status = "returned"

\* The tickers of the list a scan returned.
ReturnedTickers == {scan.returned[i].ticker : i \in DOMAIN scan.returned}

\* The tickers of the scan in hand whose fetch gave no data or whose
\* processing raised.
FailedTickers ==
    {t \in DOMAIN scan.fetched :
        \/ scan.fetched[t] = None
        \/ scan.fetched[t][1].market_cap = None
        \/ LET d == scan.fetched[t][1]
               scoring == _score_opportunity(d)
           IN  /\ _apply_filters(d)
               /\ scoring.score >= 60
               /\ ReasoningRaises(scoring.signals, d)}

\* C20: for a snapshot with a market capitalisation _apply_filters accepts
\* exactly when 50,000,000 <= market_cap <= 2,000,000,000, 2 <= price <= 50,
\* volume >= 100,000, 25 <= rsi <= 75 and 1 <= |price_change_pct| <= 25; a
\* ticker whose snapshot lies outside these ranges is not in the list a scan
\* returns and is counted as filtered, not as an error.
C20_FilterRanges ==
    /\ (scan.op = "_apply_filters" /\ scan.status = "returned") =>
          (scan.result <=> WithinCriteria(scan.data))
    /\ ScanReturned =>
          LET rejected == {t \in DOMAIN scan.fetched \ FailedTickers :
                              ~WithinCriteria(scan.fetched[t][1])}
          IN  /\ rejected \cap ReturnedTickers = {}
              /\ last_scan_stats.filtered_count >= Cardinality(rejected)
              /\ last_scan_stats.error_count
                    <= Cardinality(DOMAIN scan.fetched) - Cardinality(rejected)
              /\ (FailedTickers = {}) => last_scan_stats.error_count = 0

\* A snapshot with every metric on a bound of its range is accepted.
C20_Witness ==
    /\ scan.op = "_apply_filters"
    /\ scan.status = "returned"
    /\ scan.data.market_cap = Some(2000000000)
    /\ scan.data.price = 50
    /\ scan.data.volume = 100000
    /\ scan.data.rsi = 25
    /\ scan.data.price_change_pct = -25
    /\ scan.result

\* C11: when the fetch gives no data or a step raises for some of the
\* tickers, the scan still returns a list; error_count is the number of those
\* tickers, and the list and the other statistics are those of a scan of the
\* remaining tickers alone, in which nothing fails.
C11_FailuresAreLocal ==
    ScanReturned =>
        LET survivors == SelectSeq(_get_ticker_universe,
                                   LAMBDA t : t \notin FailedTickers)
            clean == scan_for_opportunities(survivors, scan.fetched, scan.max_results)
        IN  /\ DOMAIN scan.returned = 1..Len(scan.returned)
            /\ last_scan_stats.error_count = Cardinality(FailedTickers)
            /\ last_scan_stats.tickers_scanned = Len(_get_ticker_universe)
            /\ clean.stats.error_count = 0
            /\ scan.returned = clean.returned
            /\ last_scan_stats.filtered_count = clean.stats.filtered_count
            /\ last_scan_stats.opportunities_found = clean.stats.opportunities_found

\* One ticker without data and one whose filter step raised, next to a
\* filtered ticker and a returned one.
C11_Witness ==
    /\ ScanReturned
    /\ \E t \in DOMAIN scan.fetched : scan.fetched[t] = None
    /\ \E t \in DOMAIN scan.fetched : scan.fetched[t] = Some(CapMissing)
    /\ last_scan_stats.error_count = 2
    /\ last_scan_stats.filtered_count = 1
    /\ Len(scan.returned) = 1

\* A ticker of the scan in hand that passes the filters and scores >= 60.
Qualifies(t) ==
    /\ t \notin FailedTickers
    /\ WithinCriteria(scan.fetched[t][1])
    /\ _score_opportunity(scan.fetched[t][1]).score >= 60

\* C12: after scan_for_opportunities(max_results = m), m >= 0, the returned
\* list has at most m entries, each for a different ticker that passed the
\* filters, with that ticker's score, which is >= 60; the scores never
\* increase along the list; and no qualifying ticker that is left out has a
\* higher score than one that is included.
C12_TopOfTheQualifying ==
    (ScanReturned /\ scan.max_results >= 0) =>
        LET r == scan.returned
        IN  /\ Len(r) <= scan.max_results
            /\ \A i \in DOMAIN r :
                  /\ r[i].ticker \in DOMAIN scan.fetched
                  /\ Qualifies(r[i].ticker)
                  /\ r[i].score = _score_opportunity(scan.fetched[r[i].ticker][1]).score
                  /\ r[i].score >= 60
            /\ \A i, j \in DOMAIN r : i < j =>
                  r[i].score >= r[j].score /\ r[i].ticker # r[j].ticker
            /\ \A t \in DOMAIN scan.fetched :
                  (Qualifies(t) /\ t \notin ReturnedTickers) =>
                      \A i \in DOMAIN r :
                          _score_opportunity(scan.fetched[t][1]).score <= r[i].score

\* Three qualifying tickers with three different scores and max_results = 2:
\* the two best are returned, the best first.
C12_Witness ==
    /\ ScanReturned
    /\ scan.max_results = 2
    /\ last_scan_stats.opportunities_found = 3
    /\ Len(scan.returned) = 2
    /\ scan.returned[1].score = 90
    /\ scan.returned[2].score = 75
    /\ scan.returned[1].ticker = _get_ticker_universe[MaxTickers]

\* C14 as stated: the returned list is the same for every order in which the
\* tickers of the universe are processed, equal scores included.
C14_OrderIndependent ==
    ScanReturned =>
        \A order \in Permutations(1..MaxTickers) :
            scan_for_opportunities([i \in 1..MaxTickers |->
                                       _get_ticker_universe[order[i]]],
                                   scan.fetched, scan.max_results).returned
                = scan.returned

(***************************************************************************)
(* Properties of concurrent debates (SpecConcurrent)                        *)
(***************************************************************************)
AllCallersDone == \A c \in Callers : threads[c].pc = "done"

\* C13 as stated: once the MaxCallers concurrent debates have completed,
\* every posture's debate counter has grown by MaxCallers, the three win
\* counters by MaxCallers in total, and the history holds MaxCallers new
\* whole records, one per debate.
C13_NoLostUpdate ==
    AllCallersDone =>
        /\ \A p \in Postures : debates[p] = MaxCallers
        /\ wins["Risk-Seeking"] + wins["Risk-Neutral"] + wins["Risk-Conservative"]
              = MaxCallers
        /\ Len(history) = MaxCallers
        /\ \A i \in DOMAIN history : \E c \in Callers : history[i] = threads[c].result

(***************************************************************************)
(* Properties of the reasoning text (SpecScanner)                           *)
(***************************************************************************)
Reasoned == scored # NotScored /\ "reasoning" \in DOMAIN scored

\* The templates each category's clause is written from.
CategoryClauses ==
    [momentum |-> {"Strong momentum with +{}% on {}x volume",
                   "Solid price momentum: +{}%"},
     technical |-> {"Near 52-week high with RSI at {}",
                    "Favorable technical setup (RSI: {})"},
     fundamental |-> {"Strong revenue growth ({}%)",
                      "Attractive valuation (P/E: {})"},
     sector_match |-> {"Preferred sector: {}"},
     generic |-> {"Solid setup (score {}), no standout catalyst",
                  "Marginal setup (score {}), watch for confirmation",
                  "Weak setup (score {}), skip"}]

\* How many sentences of the text are written from the category's templates.
ClauseCount(text, category) ==
    Cardinality({i \in DOMAIN text : text[i].clause \in CategoryClauses[category]})

\* The categories whose sub-score meets its floor.
MeetsFloor(signals) ==
    {c \in {"momentum", "technical"} : signals[c] >= 15}
      \cup {c \in {"fundamental"} : signals[c] >= 12}
      \cup {c \in {"sector_match"} : signals[c] = 15}

\* C23: for every scored ticker whose reasoning text was produced, the text
\* has exactly one clause for each category whose sub-score meets its floor
\* (momentum >= 15, technical >= 15, fundamental >= 12, sector_match = 15),
\* no clause for a category below its floor, and the single generic
\* score-tier sentence if and only if no category meets its floor.
C23_OneClausePerCategory ==
    (Reasoned /\ ~scored.reasoning.raised) =>
        LET text == scored.reasoning.text
            met == MeetsFloor(scored.signals)
        IN  /\ \A c \in {"momentum", "technical", "fundamental", "sector_match"} :
                  ClauseCount(text, c) = IF c \in met THEN 1 ELSE 0
            /\ ClauseCount(text, "generic") = IF met = {} THEN 1 ELSE 0

(***************************************************************************)
(* Properties of the score total and of the tier tables (SpecScanner)       *)
(***************************************************************************)
\* C22: for every metrics snapshot the raw sum of the five category scores
\* computed by _score_opportunity is at most 100 (the caps themselves sum to
\* 100), so the overflow branch that clamps the total is never taken.
C22_OverflowNeverTaken ==
    /\ SCORING_WEIGHTS.momentum + SCORING_WEIGHTS.technical
         + SCORING_WEIGHTS.fundamental + SCORING_WEIGHTS.sentiment
         + SCORING_WEIGHTS.sector = 100
    /\ scored # NotScored =>
          /\ RawTotal(scored.signals) <= 100
          /\ ~scored.overflow
          /\ scored.score = RawTotal(scored.signals)

\* The snapshot with the greatest raw sum has been scored without the clamp.
C22_Witness ==
    /\ scored # NotScored
    /\ RawTotal(ScoreSignals(data)) = 90
    /\ \A d \in Snapshots : RawTotal(ScoreSignals(d)) <= 90
    /\ ~scored.overflow

\* The reference tier tables, thresholds strict and bands first-match.  The
\* 52-week position is (price - low) / (high - low), compared with p percent
\* as 100 * (price - low) against p * (high - low).
RefPriceChange(pc) == IF pc > 10 THEN 15 ELSE IF pc > 7 THEN 10 ELSE IF pc > 4 THEN 5 ELSE 0

RefVolume(volume, avg_volume) ==
    LET n == IF avg_volume <= 0 THEN 1 ELSE volume
        m == IF avg_volume <= 0 THEN 1 ELSE avg_volume
    IN  IF n > 4 * m THEN 10
        ELSE IF 10 * n > 25 * m THEN 7
        ELSE IF 10 * n > 18 * m THEN 4
        ELSE 0

RefRsi(rsi) ==
    IF rsi \in 58..65 THEN 10 ELSE IF rsi \in 52..70 THEN 6
    ELSE IF rsi \in 45..52 THEN 3 ELSE 0

RefPosition(price, high, low) ==
    IF high = None \/ low = None THEN 0
    ELSE IF high[1] = low[1] THEN 0
    ELSE LET range == high[1] - low[1]
             off == price - low[1]
         IN  IF 100 * off > 85 * range THEN 15
             ELSE IF 100 * off > 70 * range THEN 10
             ELSE IF 100 * off > 55 * range THEN 5
             ELSE 0

InOpen(x, lo, hi) == x # None /\ lo < x[1] /\ x[1] < hi

RefPe(pe, forward_pe) ==
    IF InOpen(pe, 0, 25) THEN 10
    ELSE IF InOpen(pe, 0, 40) THEN 5
    ELSE IF InOpen(forward_pe, 0, 20) THEN 7
    ELSE 0

RefPb(pb) == IF InOpen(pb, 0, 3) THEN 8 ELSE IF InOpen(pb, 0, 5) THEN 4 ELSE 0

RefGrowth(rg) ==
    IF rg # None /\ rg[1] > 20 THEN 7 ELSE IF rg # None /\ rg[1] > 10 THEN 4 ELSE 0

\* C24: for every metrics snapshot the momentum, technical, fundamental and
\* sector sub-scores equal the reference tier tables with strict thresholds
\* (price change, volume ratio, RSI bands, 52-week position > 85 / > 70 / > 55
\* percent, trailing and forward P/E, P/B, revenue growth, preferred sector
\* 15), each category capped at its weight; in particular the snapshot with
\* price change 12, volume ratio 5, RSI 60, position 90%, a preferred sector
\* and P/E 18 scores 25 + 25 + 10 + 0 + 15 = 75.
C24_TierTables ==
    scored # NotScored =>
        /\ scored.signals.momentum =
              Min(RefPriceChange(data.price_change_pct)
                    + RefVolume(data.volume, data.avg_volume), 25)
        /\ scored.signals.technical =
              Min(RefRsi(data.rsi)
                    + RefPosition(data.price, data.fifty_two_week_high,
                                  data.fifty_two_week_low), 25)
        /\ scored.signals.fundamental =
              Min(RefPe(data.pe_ratio, data.forward_pe)
                    + RefPb(data.price_to_book) + RefGrowth(data.revenue_growth),
                  25)
        /\ scored.signals.sector_match =
              (IF data.sector \in PreferredSectors THEN 15 ELSE 0)

(***************************************************************************)
(* Properties of the summary text (SpecMeta)                                *)
(***************************************************************************)
\* The descriptor the agreement rate top / n calls for.
DescriptorFor(top, n) ==
    IF 10 * top >= 9 * n THEN "unanimous"
    ELSE IF 10 * top >= 7 * n THEN "strong"
    ELSE IF 10 * top >= 5 * n THEN "moderate"
    ELSE "weak"

\* C25: for every non-empty opinion list the summary's agreement descriptor
\* is unanimous / strong / moderate / weak for an agreement rate
\* >= 0.90 / >= 0.70 / >= 0.50 / below, and its cautionary clause matches the
\* penalty applied: the groupthink caution exactly when the multiplier is
\* 0.85, the low-agreement caution exactly when it is 0.90, and the
\* healthy-debate sentence exactly when it is 1.0.
C25_SummaryMatchesPenalty ==
    (Aggregated /\ agent_recs # <<>>) =>
        LET analysis == meta_result.meta_analysis
            penalty == meta_result.diversity_penalty
        IN  /\ analysis.agreement_desc
                 = DescriptorFor(TopCount(agent_recs), Len(agent_recs))
            /\ (analysis.caution = "High agreement") <=> (penalty = groupthink_penalty)
            /\ (analysis.caution = "Low agreement") <=> (penalty = chaos_penalty)
            /\ (analysis.caution = "Healthy debate") <=> (penalty = no_penalty)
            /\ analysis.caution \in {"High agreement", "Low agreement", "Healthy debate"}

\* Three opinions for three different actions have been aggregated: the
\* agreement rate 1/3 is below 0.40 with exactly three opinions, the summary
\* says weak and low agreement, and the multiplier is 0.90.
C25_Witness ==
    /\ Aggregated
    /\ Len(agent_recs) = 3
    /\ TopCount(agent_recs) = 1
    /\ meta_result.meta_analysis.agreement_desc = "weak"
    /\ meta_result.meta_analysis.caution = "Low agreement"
    /\ meta_result.diversity_penalty = chaos_penalty

(***************************************************************************)
(* Properties of the scan statistics (SpecScan)                             *)
(***************************************************************************)
\* The tickers of the scan in hand that passed the filters and scored at
\* least 60, and those a filter rejected or that scored below 60.
QualifyingTickers ==
    {t \in DOMAIN scan.fetched \ FailedTickers :
        /\ WithinCriteria(scan.fetched[t][1])
        /\ _score_opportunity(scan.fetched[t][1]).score >= 60}

RejectedTickers ==
    {t \in DOMAIN scan.fetched \ FailedTickers :
        \/ ~WithinCriteria(scan.fetched[t][1])
        \/ _score_opportunity(scan.fetched[t][1]).score < 60}

\* C29: after every scan tickers_scanned = opportunities_found
\* + filtered_count + error_count, where opportunities_found is the number of
\* qualifying tickers before the truncation to max_results, filtered_count the
\* number of tickers a filter rejected or that scored below 60, and
\* error_count the number of tickers without data or whose processing
\* raised: every ticker of the universe is counted in exactly one of the
\* three.
C29_StatsPartition ==
    ScanReturned =>
        /\ last_scan_stats.tickers_scanned
             = last_scan_stats.opportunities_found
                 + last_scan_stats.filtered_count + last_scan_stats.error_count
        /\ last_scan_stats.tickers_scanned = Len(_get_ticker_universe)
        /\ last_scan_stats.opportunities_found = Cardinality(QualifyingTickers)
        /\ last_scan_stats.filtered_count = Cardinality(RejectedTickers)
        /\ last_scan_stats.error_count = Cardinality(FailedTickers)
        /\ Len(scan.returned) = Min(last_scan_stats.opportunities_found,
                                    scan.max_results)

\* A scan of four tickers with max_results = 1: two qualify and one of them
\* is returned, one is rejected by the price filter and one scores 50.
C29_Witness ==
    /\ ScanReturned
    /\ scan.max_results = 1
    /\ Len(scan.returned) = 1
    /\ last_scan_stats.opportunities_found = 2
    /\ last_scan_stats.filtered_count = 2
    /\ \E t \in DOMAIN scan.fetched : scan.fetched[t] = Some(TooExpensive)
    /\ \E t \in DOMAIN scan.fetched : scan.fetched[t] = Some(Weak50)

(***************************************************************************)
(* Properties of the committee's counters (SpecCommittee)                   *)
(***************************************************************************)
SumOfWins(w) == w["Risk-Seeking"] + w["Risk-Neutral"] + w["Risk-Conservative"]

\* C26: on a committee instance, after any sequence of
\* debate_position_sizing calls, completing or raising, on either resolution
\* path, the three debate counters are equal, the three win counters sum to
\* that debate count (the total_debates of get_statistics), and that count is
\* the number of records appended to history since the instance was
\* constructed: all are 0 after construction and every step adds the same
\* number to each.
C26_CountersInStep ==
    /\ get_statistics.total_debates = 0 /\ SumOfWins(wins) = 0
    /\ [][/\ \A p \in Postures : debates'[p] = debates'["Risk-Seeking"]
          /\ get_statistics'.total_debates = debates'["Risk-Seeking"]
          /\ SumOfWins(wins') = debates'["Risk-Seeking"]
          /\ debates'["Risk-Seeking"] - debates["Risk-Seeking"]
               = Len(history') - Len(history)
          /\ SumOfWins(wins') - SumOfWins(wins) = Len(history') - Len(history)]_vars

\* A committee with an arbiter that loaded one earlier record has completed
\* one debate, the arbiter call having raised: one debate and one win are
\* counted, and history holds the earlier record and the one appended.
C26_Witness ==
    /\ claude
    /\ last_call.called /\ ~last_call.raised
    /\ last_call.arbiter = ArbiterRaises
    /\ Len(history) = 2
    /\ history[1] = EarlierRecord
    /\ get_statistics.total_debates = 1
    /\ \A p \in Postures : debates[p] = 1
    /\ SumOfWins(wins) = 1

\* The posture whose proposal _simulated_debate adopts.
AdoptedPosture(confidence) ==
    IF confidence >= 85 THEN "Risk-Seeking"
    ELSE IF confidence >= 70 THEN "Risk-Neutral"
    ELSE "Risk-Conservative"

\* C27: a debate resolved by the deterministic fallback records as winner the
\* posture whose proposal was adopted (Risk-Seeking for confidence >= 0.85,
\* Risk-Neutral for 0.70 <= confidence < 0.85, Risk-Conservative below 0.70),
\* also when two or three postures propose the same quantity.
C27_WinnerIsAdoptedPosture ==
    (/\ last_call.called /\ ~last_call.raised
     /\ (~claude \/ last_call.arbiter = ArbiterRaises)) =>
        last_call.result.winner = AdoptedPosture(last_call.rec.confidence)

\* C28: a debate_position_sizing call that raises leaves the committee as it
\* was: no win counter and no debate counter changes, no record is appended
\* to history and the history file is not written.
C28_RaiseLeavesStateUnchanged ==
    [][(last_call'.called /\ last_call'.raised) =>
          UNCHANGED <<wins, debates, history, history_file>>]_vars

\* On a fresh committee one debate has completed and then a call with
\* target_price = 0 has raised: the counters, history and the file are those
\* of the one debate.
C28_Witness ==
    /\ last_call.called /\ last_call.raised
    /\ last_call.rec.target_price = 0
    /\ Len(history) = 1
    /\ history # <<EarlierRecord>>
    /\ history_file = Some(history)
    /\ \A p \in Postures : debates[p] = 1
    /\ wins["Risk-Seeking"] + wins["Risk-Neutral"] + wins["Risk-Conservative"] = 1

(***************************************************************************)
(* Properties of the committee's callers (SpecService)                      *)
(***************************************************************************)
ServiceCalled == service.program = "api" /\ service.op = "_apply_risk_committee"

\* C21: the sizing committee is asked only for a non-HOLD action: for a HOLD
\* recommendation _apply_risk_committee returns no result and
\* debate_position_sizing is not called, so the win counters, the debate
\* counters, history and the history file are as before; the pipeline script
\* likewise asks the committee for a BUY or a SELL only.
C21_HoldIsNotSized ==
    [][/\ (/\ service'.program = "api"
           /\ service'.op = "_apply_risk_committee"
           /\ service'.recommendation.action = "HOLD") =>
              /\ service'.returned = None
              /\ service'.qty = service'.recommendation.qty
              /\ UNCHANGED committeeVars
       /\ (/\ service'.program = "test_analyst_pipeline"
           /\ service'.op = "done"
           /\ service'.action = "HOLD") =>
              UNCHANGED committeeVars
       /\ last_call' # last_call =>
              /\ last_call'.called
              /\ last_call'.rec.action # "HOLD"]_vars

\* After a sized recommendation, a HOLD has been handed to a service that has
\* a committee: nothing was returned and the committee still shows the one
\* debate.
C21_Witness ==
    /\ ServiceCalled
    /\ service.risk_committee
    /\ service.recommendation.action = "HOLD"
    /\ service.returned = None
    /\ last_call.called /\ ~last_call.raised
    /\ last_call.rec.action # "HOLD"
    /\ Len(history) = 1
    /\ \A p \in Postures : debates[p] = 1

\* C30: when the service applies the committee to a non-HOLD recommendation,
\* the risk_adjusted_qty it returns and writes back as the recommendation's
\* quantity is the committee's resolved consensus quantity, for every
\* confidence and on both resolution paths.
C30_WritesConsensusQuantity ==
    (ServiceCalled /\ service.returned # None) =>
        /\ last_call.called /\ ~last_call.raised
        /\ service.returned[1].risk_adjusted_qty = last_call.result.consensus.qty
        /\ service.qty = Some(last_call.result.consensus.qty)

====
